---- MODULE Spec2Model ----
(***************************************************************************)
(* Resilient LLM routing plane of the AI service: the Redis-backed circuit *)
(* breaker, the LLMRouter dispatch loop with its bounded retry, and the    *)
(* chat orchestrator that calls the router.  Every Redis command is one    *)
(* step, so a Redis outage can begin or end between the commands of one    *)
(* operation; time passes between two requests.                            *)
(***************************************************************************)
EXTENDS Integers, Sequences, FiniteSets, TLC

\* ---------------------------------------------------------------------------
\* Program constants
\* ---------------------------------------------------------------------------
FAILURE_THRESHOLD == 5
FAILURE_WINDOW == 300
OPEN_DURATION == 120
STATE_TTL == 600
STOP_AFTER_ATTEMPT == 3
EMBED_ATTEMPTS == 6
MAX_TURNS == 10
DEFAULT_LIMIT == 10

\* ---------------------------------------------------------------------------
\* Bounds of the model
\* ---------------------------------------------------------------------------
\* seconds by which one clock step advances time.time()
TimeStep == 120
\* the clock stops advancing here
MaxTime == 240
\* a provider call may fail only while its failure counter is below this
MaxFailures == 6
\* Redis outages (intervals in which every command raises RedisError) per behaviour
MaxOutages == 1
\* save_turn calls that may succeed per conversation
MaxSaves == 11

Workers == {"w1", "w2"}
Layers == {"primary", "secondary"}
Providers == {"gemini", "groq"}
Outcomes == {"ok", "transient", "fatal"}
ConversationIds == {"", "c1"}
\* how one genai.embed_content call ends: a vector, a 429 / ResourceExhausted, or
\* another exception
EmbedOutcomes == {"ok", "rate_limit", "error"}

\* provider.name of the adapter the chat service puts in each layer
Name(layer) == IF layer = "primary" THEN "gemini" ELSE "groq"

\* text returned by a provider adapter on success (never empty)
ProviderText(p) == <<"Response from", p>>

\* LLMRouter._get_static_fallback
StaticText == <<"Disculpa las molestias tecnicas", "Sistema de respaldo activado">>

\* the notice the chat service appends to a fallback answer
FallbackNotice == "(Respuesta generada por sistema de respaldo)"

NoTTL == 0 - 1
AbsentKey == [val |-> "absent", exp |-> 0]
AbsentOpened == [val |-> -1, exp |-> 0]
AbsentCounter == [n |-> 0, exp |-> 0]

NoResult == [text |-> <<>>, provider |-> "none", fallback_used |-> FALSE, layer |-> "none"]

VARIABLES
    cfg,            \* how the router was constructed: redis client, decode_responses, secondary
    now,            \* time.time(), in seconds
    circuit_state,  \* llm:{provider}:circuit_state
    opened_at,      \* llm:{provider}:opened_at
    failures,       \* llm:{provider}:failures
    redis_up,       \* FALSE while every Redis command raises a RedisError
    outages,        \* outages begun so far
    rq,             \* per worker: the request it is serving and its position
    obs,            \* observations of the breaker used to state properties
    conversations,  \* InMemoryConversationStore._conversations
    db,             \* the PostgreSQL tables and the transaction of the store's connection
    op,             \* the conversation-store operation in progress, or the last one's result
    saved,          \* per conversation: save_turn calls that returned normally
    bh,             \* PromptBuilder.build_history: its arguments and what it returned
    sc,             \* the scraper service: its cache, the page, the call in progress
    emb,            \* the embeddings table, its settings, and the last repository call
    th,             \* threads inside InMemoryConversationStore.save_turn
    bp              \* PlaywrightBrowserProvider: browser, context pool, fetches in progress

\* the conversation stores
convVars == <<conversations, db, op, saved>>
\* the router and the chat service over it
routerVars == <<cfg, now, circuit_state, opened_at, failures, redis_up, outages, rq, obs>>
\* the prompt builder and the scraper service
restVars == <<bh, sc, emb, th, bp>>
\* what a step of the prompt builder, of the scraper, of the embedding service leaves alone
exceptBh == <<routerVars, convVars, sc, emb, th, bp>>
exceptSc == <<routerVars, convVars, bh, emb, th, bp>>
exceptEmb == <<routerVars, convVars, bh, sc, th, bp>>
vars == <<routerVars, convVars, restVars>>
store == <<circuit_state, opened_at, failures>>
env == <<cfg, now, redis_up, outages, convVars, restVars>>

\* the get_state call that has just returned: its caller, what it returned, whether
\* one of its reads / any of its commands met a RedisError, and whether can_attempt
\* had already answered true since the breaker tripped
NoGs == [ret |-> "none", ctx |-> "none", layer |-> "none", readErr |-> FALSE,
         anyErr |-> FALSE, again |-> FALSE]

\* a worker that serves no request
IdleReq ==
    [pc |-> "idle", conv_in |-> "", conversation_id |-> "",
     layer |-> "none", ctx |-> "none", attempts |-> <<>>, i |-> 0,
     state |-> "none", failures |-> 0,
     hist |-> [l \in Layers |-> <<>>], tried |-> [l \in Layers |-> "no"],
     response_text |-> <<>>,
     result |-> NoResult, raised |-> "none",
     answer |-> <<>>, chat_raised |-> "none",
     emb_calls |-> 0, exc |-> "none", http |-> 0,
     gs |-> NoGs,
     sawOpen |-> FALSE, secClosed |-> FALSE, probe |-> FALSE,
     storeOk |-> FALSE, storeErr |-> FALSE,
     hits |-> <<>>]

Configs ==
    {[redis |-> TRUE, decode_responses |-> FALSE, secondary |-> TRUE],
     [redis |-> TRUE, decode_responses |-> TRUE, secondary |-> TRUE],
     [redis |-> TRUE, decode_responses |-> FALSE, secondary |-> FALSE],
     [redis |-> TRUE, decode_responses |-> TRUE, secondary |-> FALSE],
     [redis |-> FALSE, decode_responses |-> FALSE, secondary |-> TRUE]}

\* clean[p]: the state key of p holds the trip made by the T-th failure counted from
\* CLOSED (or the HALF_OPEN that followed it); probed[p]: can_attempt has answered
\* true since that trip
\* timed: the times of the recorded failures are observed too; since[p]: when the
\* failure counter of p was created; last[p]: when the last failure of p was
\* recorded (-1: never)
InitObs ==
    [clean |-> [p \in Providers |-> FALSE],
     probed |-> [p \in Providers |-> FALSE],
     timed |-> FALSE,
     since |-> [p \in Providers |-> 0],
     last |-> [p \in Providers |-> 0 - 1]]

\* conversation ids the stores are called with
ConvKeys == {"c1", "c2"}

\* no store operation in progress and none finished yet
NoOp == [kind |-> "none", pc |-> "none", conv |-> "none", limit |-> 0,
         turns |-> <<>>, greeting |-> "none", raised |-> FALSE]

\* a connection that has run no statement, over empty tables
EmptyDb ==
    [txn |-> "idle", convs |-> {}, msgs |-> [c \in ConvKeys |-> <<>>],
     pconvs |-> {}, pmsgs |-> [c \in ConvKeys |-> <<>>]]

\* both stores as constructed
ConvInit ==
    /\ conversations = [c \in ConvKeys |-> <<>>]
    /\ db = EmptyDb
    /\ op = NoOp
    /\ saved = [c \in ConvKeys |-> 0]

\* build_history has not been called
NoBh == [pc |-> "none", history |-> <<>>, max_tokens |-> 0,
         header |-> FALSE, turns |-> <<>>]

\* the URLs and the rulesets scrape is called with
Urls == {"u1"}
Rulesets == {"r1", "r2", "r3"}

\* hashlib.md5(json.dumps(rules, sort_keys=True)).hexdigest()[:8]: 32 bits of the
\* digest, so two rulesets can share a hash
RulesHash(rules) == IF rules = "r2" THEN "h2" ELSE "h1"

\* cache_key = f"scrape:{url}:{rules_hash}"
CacheKey(url, rules) == <<"scrape", url, RulesHash(rules)>>

CacheKeys == {CacheKey(u, r) : u \in Urls, r \in Rulesets}

\* Python's None, where a string or a dict is expected
None == "None"
NoData == <<>>

\* ScrapedData with the dataclass defaults of title, data, metadata and error
ScrapedData(url, title, data, from_cache, success, error) ==
    [url |-> url, title |-> title, data |-> data, from_cache |-> from_cache,
     success |-> success, error |-> error]

\* nothing under a cache key
NoEntry == [present |-> FALSE, value |-> <<>>, expiry |-> 0]

\* the URL and ruleset whose scrapes the properties follow: r3 shares its cache key,
\* r2 does not
Tracked == [url |-> "u1", rules |-> "r1"]

\* no earlier scrape of the followed URL and ruleset has fetched the page and
\* returned its data
NoLast == [present |-> FALSE, at |-> 0, data |-> NoData, held |-> FALSE]

\* no scrape in progress and none finished yet
NoScrape ==
    [pc |-> "idle", url |-> None, rules |-> None, use_cache |-> FALSE,
     html |-> 0, fetched |-> FALSE, began |-> 0, prev |-> NoLast, missed |-> FALSE,
     raised |-> FALSE, exc |-> None,
     result |-> ScrapedData(None, None, NoData, FALSE, FALSE, None)]

\* ScraperService as constructed with the given browser and cache providers,
\* before its first scrape
NewScraper(browser, cache_kind, cache_enabled) ==
    [browser |-> browser, cache_kind |-> cache_kind, cache_enabled |-> cache_enabled,
     clock |-> 0, version |-> 1, evictions |-> 0,
     cache |-> [k \in CacheKeys |-> NoEntry],
     call |-> NoScrape,
     last |-> NoLast]

\* Settings.embedding_dimension by default, and the dimension find_similar casts its
\* query vector to
EMBEDDING_DIMENSION == 3072
QUERY_DIMENSION == 768

\* an embedding service that has made no call, over an empty embeddings table whose
\* embedding column has the type modifier column (0: vector without a dimension)
NewEmbeddings(dimension, column) ==
    [dimension |-> dimension, column |-> column, rows |-> <<>>,
     call |-> [op |-> "none", vector |-> 0, raised |-> FALSE]]

\* the coroutines that call fetch_page on one provider
Fibers == {"f1", "f2"}

\* a coroutine that is not inside fetch_page; qid: the queue its get waits on;
\* context: the context it holds (0: none); acquired, returned: it obtained a
\* context, it handed it to _return_context; html: page.content() returned
NoFetch ==
    [pc |-> "idle", i |-> 0, qid |-> 0, context |-> 0, page |-> FALSE,
     acquired |-> FALSE, fabricated |-> FALSE, returned |-> FALSE,
     html |-> FALSE, raised |-> "none"]

\* PlaywrightBrowserProvider.__init__: no browser (0), no queue (0); launched and
\* created count the browsers launched and the contexts created so far, pooled
\* those created by _ensure_browser; replaced: a queue was replaced while a
\* context taken from it was in use
NewProvider ==
    [browser |-> 0, launched |-> 0, qid |-> 0, queue |-> {}, created |-> 0,
     pooled |-> 0, fetches |-> 0, replaced |-> FALSE,
     f |-> [x \in Fibers |-> NoFetch]]

\* the threads that call save_turn on one store
Threads == {"t1", "t2", "t3"}

\* no thread is inside save_turn; present: the conversation has a key in the
\* dict; n: the turns it held before the threads began; stale[t]: the list t
\* looked up is no longer the one the dict holds; tmp[t]: the slice t computed
NoThreads ==
    [present |-> FALSE, n |-> 0,
     pc |-> [t \in Threads |-> "idle"],
     stale |-> [t \in Threads |-> FALSE],
     tmp |-> [t \in Threads |-> <<>>]]

\* the prompt builder, the scraper service and the embedding service as main.py
\* constructs them
RestInit ==
    /\ th = NoThreads
    /\ bp = NewProvider
    /\ bh = NoBh
    /\ sc = NewScraper("playwright", "memory", TRUE)
    /\ emb = NewEmbeddings(EMBEDDING_DIMENSION, QUERY_DIMENSION)

\* the router as constructed, serving nothing
RouterInit ==
    /\ now = 0
    /\ circuit_state = [p \in Providers |-> AbsentKey]
    /\ opened_at = [p \in Providers |-> AbsentOpened]
    /\ failures = [p \in Providers |-> AbsentCounter]
    /\ redis_up = TRUE
    /\ outages = 0
    /\ rq = [w \in Workers |-> IdleReq]
    /\ obs = InitObs

Init ==
    /\ cfg \in Configs
    /\ RouterInit
    /\ ConvInit
    /\ RestInit

\* ---------------------------------------------------------------------------
\* Redis key expiry
\* ---------------------------------------------------------------------------
\* variant: the state key is set without a TTL
StateNoExpiry(t) == NoTTL

\* self.redis.set(self.state_key, state.value, ex=600) at time t: when the key
\* is due to disappear
StateExpiry(t) == t + STATE_TTL

\* a key set with ex=ttl at time t is gone once t + ttl has been reached
Expired(exp, t) == exp # NoTTL /\ exp <= t

ExpireKeys(t) ==
    /\ circuit_state' = [p \in Providers |->
          IF circuit_state[p].val # "absent" /\ Expired(circuit_state[p].exp, t)
          THEN AbsentKey ELSE circuit_state[p]]
    /\ opened_at' = [p \in Providers |->
          IF opened_at[p].val >= 0 /\ Expired(opened_at[p].exp, t)
          THEN AbsentOpened ELSE opened_at[p]]
    /\ failures' = [p \in Providers |->
          IF failures[p].n > 0 /\ Expired(failures[p].exp, t)
          THEN AbsentCounter ELSE failures[p]]

\* time passes between two requests, up to limit; keys whose TTL has run out
\* disappear
Advance(limit) ==
    /\ \A w \in Workers : rq[w].pc = "idle"
    /\ now + TimeStep <= limit
    /\ now' = now + TimeStep
    /\ ExpireKeys(now + TimeStep)
    /\ obs' = [obs EXCEPT
          !.clean = [p \in Providers |->
             circuit_state'[p].val = circuit_state[p].val /\ @[p]],
          !.probed = [p \in Providers |->
             circuit_state'[p].val = circuit_state[p].val /\ @[p]]]
    /\ UNCHANGED <<cfg, redis_up, outages, rq, convVars, restVars>>

Tick == Advance(MaxTime)

\* Redis becomes unreachable, at any point of a request or between two requests
RedisFails ==
    /\ redis_up /\ cfg.redis
    /\ outages < MaxOutages
    /\ redis_up' = FALSE
    /\ outages' = outages + 1
    /\ UNCHANGED <<cfg, now, store, rq, obs, convVars, restVars>>

\* Redis is reachable again
RedisRecovers ==
    /\ ~redis_up
    /\ redis_up' = TRUE
    /\ UNCHANGED <<cfg, now, outages, store, rq, obs, convVars, restVars>>

\* ---------------------------------------------------------------------------
\* LLMRouter.generate: local control between two Redis commands
\* ---------------------------------------------------------------------------
HasBreaker == cfg.redis

\* a Redis command of this request ended: with a RedisError, or normally
Mark(r, err) ==
    IF err THEN [r EXCEPT !.storeErr = TRUE] ELSE [r EXCEPT !.storeOk = TRUE]

\* the request of worker w as its next step finds it
Cur(w) == [rq[w] EXCEPT !.gs = NoGs]

\* variant: the flag is never set for a provider's own answer
FallbackUsedNever(layer) == FALSE

\* "fallback_used": layer != "primary"
FallbackUsed(layer) == layer # "primary"

\* all providers failed: the static text
StaticReturn(r) ==
    [r EXCEPT !.result = [text |-> StaticText, provider |-> "static_fallback",
                          fallback_used |-> TRUE, layer |-> "static"],
              !.pc = "gen_done"]

\* the response of the provider that answered
SuccessReturn(r) ==
    [r EXCEPT !.result = [text |-> r.response_text, provider |-> Name(r.layer),
                          fallback_used |-> FallbackUsed(r.layer), layer |-> r.layer],
              !.pc = "gen_done"]

\* next iteration of "for layer, provider, breaker in providers_to_try"
LoopNext(r) ==
    IF r.i + 1 > Len(r.attempts)
    THEN StaticReturn(r)
    ELSE [r EXCEPT !.i = r.i + 1, !.layer = r.attempts[r.i + 1], !.pc = "call"]

StartLoop(r) == LoopNext([r EXCEPT !.i = 0])

\* "continue" after the failed attempt on r.layer; of that attempt only whether
\* the provider had returned a response is kept
NextProvider(r) ==
    LoopNext([r EXCEPT !.hist[r.layer] = <<>>,
                       !.tried[r.layer] = IF @ = "ok" THEN "ok" ELSE "failed",
                       !.failures = 0])

\* Layer 2: the secondary is appended when configured and its breaker allows it
CheckSecondary(r) ==
    IF ~cfg.secondary THEN StartLoop(r)
    ELSE IF ~HasBreaker
         THEN StartLoop([r EXCEPT !.attempts = Append(@, "secondary")])
         ELSE [r EXCEPT !.layer = "secondary", !.ctx = "can_attempt",
                        !.pc = "gs_get_state"]

\* Layer 1: the primary is appended when it has no breaker or its breaker allows it
EnterGenerate(r0) ==
    LET p == Name("primary")
        open == /\ circuit_state[p].val = "OPEN"
                /\ opened_at[p].val >= 0
        r == [r0 EXCEPT
                !.sawOpen = open /\ now - opened_at[p].val < OPEN_DURATION,
                !.probe = open /\ obs.clean[p]
                               /\ now - opened_at[p].val >= OPEN_DURATION,
                !.secClosed = circuit_state[Name("secondary")].val \in {"absent", "CLOSED"}]
    IN  IF ~HasBreaker
        THEN CheckSecondary([r EXCEPT !.attempts = <<"primary">>])
        ELSE [r EXCEPT !.layer = "primary", !.ctx = "can_attempt", !.pc = "gs_get_state"]

\* CircuitBreaker.can_attempt: state in (CLOSED, HALF_OPEN)
CanAttempt(state) == state \in {"CLOSED", "HALF_OPEN"}

AfterCanAttempt(r, state) ==
    LET r1 == IF CanAttempt(state) THEN [r EXCEPT !.attempts = Append(@, r.layer)] ELSE r
    IN  IF r.layer = "primary" THEN CheckSecondary(r1) ELSE StartLoop(r1)

\* get_state returns to can_attempt (building the attempt list) or to record_success
GsReturn(r, state) ==
    IF r.ctx = "can_attempt"
    THEN AfterCanAttempt(r, state)
    ELSE [r EXCEPT !.state = state, !.pc = "rs_delete"]

\* "except Exception" of the dispatch loop: record the failure, try the next provider
FailPath(r) ==
    IF HasBreaker THEN [r EXCEPT !.pc = "rf_incr"] ELSE NextProvider(r)

\* an exception that is no redis.RedisError leaves get_state: out of generate when
\* raised under can_attempt, into the loop's handler when raised under record_success
GsRaise(r, exc) ==
    IF r.ctx = "can_attempt"
    THEN [r EXCEPT !.raised = exc, !.pc = "gen_done"]
    ELSE FailPath(r)

\* ---------------------------------------------------------------------------
\* Observations: what can_attempt answered since the breaker tripped
\* ---------------------------------------------------------------------------
\* can_attempt on provider p answered true
ObsOnTrue(o, p) == IF o.clean[p] THEN [o EXCEPT !.probed[p] = TRUE] ELSE o

\* the state key of p was written: old value, new value
ObsOnWrite(o, p, old, new) ==
    IF old = new \/ (old = "OPEN" /\ new = "HALF_OPEN") THEN o
    ELSE [o EXCEPT !.clean[p] = FALSE, !.probed[p] = FALSE]

\* what get_state leaves behind when it returns state to its caller
GsDone(r, o, state) ==
    [r.gs EXCEPT !.ret = state, !.ctx = r.ctx, !.layer = r.layer,
                 !.again = r.ctx = "can_attempt" /\ CanAttempt(state)
                           /\ o.probed[Name(r.layer)]]

\* ---------------------------------------------------------------------------
\* CircuitBreaker.get_state, one Redis command per step
\* ---------------------------------------------------------------------------
\* state_str.decode(): a client built with decode_responses=True returns str,
\* which has no decode method
DecodeRaises == cfg.decode_responses

\* time.time() - opened_time >= self.OPEN_DURATION
CooldownElapsed(opened_time, t) == t - opened_time >= OPEN_DURATION

\* variant: fail closed
OnRedisErrorOpen == "OPEN"

\* except redis.RedisError: return CircuitState.CLOSED
OnRedisError == "CLOSED"

\* get_state returns state to its caller
GsRet(w, r, state) ==
    /\ rq' = [rq EXCEPT ![w] = GsReturn([r EXCEPT !.gs = GsDone(r, obs, state)], state)]
    /\ obs' = IF r.ctx = "can_attempt" /\ CanAttempt(state)
              THEN ObsOnTrue(obs, Name(r.layer)) ELSE obs

\* state_str = self.redis.get(self.state_key) and the lines up to the next command
GsGetState(w) ==
    /\ rq[w].pc = "gs_get_state"
    /\ \E err \in {~redis_up} :
         LET r == Mark([rq[w] EXCEPT !.gs = [NoGs EXCEPT !.readErr = err,
                                                         !.anyErr = err]], err)
             p == Name(r.layer)
             v == circuit_state[p].val
         IN  IF err THEN GsRet(w, r, OnRedisError)
             ELSE IF v = "absent" THEN GsRet(w, r, "CLOSED")
             ELSE IF DecodeRaises
                  THEN /\ rq' = [rq EXCEPT ![w] =
                                   GsRaise([r EXCEPT !.gs = GsDone(r, obs, "raised")],
                                           "AttributeError")]
                       /\ obs' = obs
                  ELSE IF v = "OPEN"
                       THEN /\ rq' = [rq EXCEPT ![w] = [r EXCEPT !.pc = "gs_get_opened"]]
                            /\ obs' = obs
                       ELSE GsRet(w, r, v)
    /\ UNCHANGED <<env, store>>

\* opened_at = self.redis.get(self.opened_key) and the cooldown test
GsGetOpened(w) ==
    /\ rq[w].pc = "gs_get_opened"
    /\ \E err \in {~redis_up} :
         LET r0 == Mark(rq[w], err)
             r == IF err THEN [r0 EXCEPT !.gs.readErr = TRUE, !.gs.anyErr = TRUE] ELSE r0
             p == Name(r.layer)
             o == opened_at[p].val
         IN  IF err THEN GsRet(w, r, OnRedisError)
             ELSE IF o >= 0 /\ CooldownElapsed(o, now)
                  THEN /\ rq' = [rq EXCEPT ![w] = [r EXCEPT !.pc = "gs_set_half"]]
                       /\ obs' = obs
                  ELSE GsRet(w, r, "OPEN")
    /\ UNCHANGED <<env, store>>

\* self._set_state(CircuitState.HALF_OPEN); return CircuitState.HALF_OPEN
GsSetHalf(w) ==
    /\ rq[w].pc = "gs_set_half"
    /\ \E err \in {~redis_up} :
         LET r0 == Mark(rq[w], err)
             r == IF err THEN [r0 EXCEPT !.gs.anyErr = TRUE] ELSE r0
             p == Name(r.layer)
             o1 == IF err THEN obs
                   ELSE ObsOnWrite(obs, p, circuit_state[p].val, "HALF_OPEN")
         IN  /\ circuit_state' = IF err THEN circuit_state
                   ELSE [circuit_state EXCEPT ![p] =
                            [val |-> "HALF_OPEN", exp |-> StateExpiry(now)]]
             /\ rq' = [rq EXCEPT ![w] =
                   GsReturn([r EXCEPT !.gs = GsDone(r, o1, "HALF_OPEN")], "HALF_OPEN")]
             /\ obs' = IF r.ctx = "can_attempt" THEN ObsOnTrue(o1, p) ELSE o1
    /\ UNCHANGED <<env, opened_at, failures>>

\* ---------------------------------------------------------------------------
\* LLMRouter._call_provider under tenacity's retry
\* ---------------------------------------------------------------------------
\* variant: retry whatever the exception
ShouldRetryAny(out, n) == out # "ok" /\ n < STOP_AFTER_ATTEMPT

\* retry_if_exception_type((ConnectionError, TimeoutError)), stop_after_attempt(3):
\* n calls have been made, the last one ended with out
ShouldRetry(out, n) == out = "transient" /\ n < STOP_AFTER_ATTEMPT

\* provider.generate_response(prompt), one call
Call(w) ==
    /\ rq[w].pc = "call"
    /\ \E out \in Outcomes :
         LET r == Cur(w)
             l == r.layer
             h == Append(r.hist[l], out)
             r1 == [r EXCEPT !.hist[l] = h]
         IN  /\ out # "ok" => failures[Name(l)].n < MaxFailures
             /\ rq' = [rq EXCEPT ![w] =
                   IF out = "ok"
                   THEN LET r2 == [r1 EXCEPT !.response_text = ProviderText(Name(l)),
                                             !.tried[l] = "ok"]
                        IN  IF cfg.redis THEN [r2 EXCEPT !.pc = "metrics"]
                            ELSE SuccessReturn(r2)
                   ELSE IF ShouldRetry(out, Len(h)) THEN r1
                        ELSE FailPath(r1)]
    /\ UNCHANGED <<env, store, obs>>

\* the telemetry block of _call_provider (incr, lpush, ltrim on keys nothing reads):
\* a RedisError is swallowed; then the loop calls breaker.record_success()
Metrics(w) ==
    /\ rq[w].pc = "metrics"
    /\ \E err \in {~redis_up} :
         rq' = [rq EXCEPT ![w] = [Mark(Cur(w), err) EXCEPT !.ctx = "record_success",
                                                         !.pc = "gs_get_state"]]
    /\ UNCHANGED <<env, store, obs>>

\* ---------------------------------------------------------------------------
\* CircuitBreaker.record_success
\* ---------------------------------------------------------------------------
\* self.redis.delete(self.failure_key); a RedisError ends record_success
RsDelete(w) ==
    /\ rq[w].pc = "rs_delete"
    /\ \E err \in {~redis_up} :
         LET r == Mark(Cur(w), err)
             p == Name(r.layer)
         IN  /\ failures' = IF err THEN failures
                            ELSE [failures EXCEPT ![p] = AbsentCounter]
             /\ rq' = [rq EXCEPT ![w] =
                   IF ~err /\ r.state = "HALF_OPEN"
                   THEN [r EXCEPT !.pc = "rs_set_closed"]
                   ELSE SuccessReturn(r)]
    /\ UNCHANGED <<env, circuit_state, opened_at, obs>>

\* self._set_state(CircuitState.CLOSED)
RsSetClosed(w) ==
    /\ rq[w].pc = "rs_set_closed"
    /\ \E err \in {~redis_up} :
         LET r == Mark(Cur(w), err)
             p == Name(r.layer)
         IN  /\ circuit_state' = IF err THEN circuit_state
                   ELSE [circuit_state EXCEPT ![p] =
                            [val |-> "CLOSED", exp |-> StateExpiry(now)]]
             /\ obs' = IF err THEN obs
                       ELSE ObsOnWrite(obs, p, circuit_state[p].val, "CLOSED")
             /\ rq' = [rq EXCEPT ![w] = SuccessReturn(r)]
    /\ UNCHANGED <<env, opened_at, failures>>

\* ---------------------------------------------------------------------------
\* CircuitBreaker.record_failure
\* ---------------------------------------------------------------------------
\* if failures >= self.FAILURE_THRESHOLD
TripsCircuit(n) == n >= FAILURE_THRESHOLD

\* INCR on the failure counter of p succeeded; fresh: the key did not exist
ObsOnFailure(o, p, fresh, t) ==
    IF ~o.timed THEN o
    ELSE [o EXCEPT !.since[p] = IF fresh THEN t ELSE @, !.last[p] = t]

\* failures = self.redis.incr(self.failure_key); a new key has no TTL yet
RfIncr(w) ==
    /\ rq[w].pc = "rf_incr"
    /\ \E err \in {~redis_up} :
         LET r == Mark(Cur(w), err)
             p == Name(r.layer)
             n == failures[p].n + 1
         IN  /\ failures' = IF err THEN failures
                   ELSE [failures EXCEPT ![p] =
                            [n |-> n, exp |-> IF failures[p].n = 0 THEN NoTTL
                                              ELSE failures[p].exp]]
             /\ rq' = [rq EXCEPT ![w] =
                   IF err THEN NextProvider(r)
                   ELSE [r EXCEPT !.failures = n, !.pc = "rf_expire"]]
             /\ obs' = IF err THEN obs
                       ELSE ObsOnFailure(obs, p, failures[p].n = 0, now)
    /\ UNCHANGED <<env, circuit_state, opened_at>>

\* self.redis.expire(self.failure_key, self.FAILURE_WINDOW) and the threshold test
RfExpire(w) ==
    /\ rq[w].pc = "rf_expire"
    /\ \E err \in {~redis_up} :
         LET r == Mark(Cur(w), err)
             p == Name(r.layer)
         IN  /\ failures' = IF err \/ failures[p].n = 0 THEN failures
                   ELSE [failures EXCEPT ![p].exp = now + FAILURE_WINDOW]
             /\ rq' = [rq EXCEPT ![w] =
                   IF ~err /\ TripsCircuit(r.failures)
                   THEN [r EXCEPT !.pc = "rf_set_open"]
                   ELSE NextProvider(r)]
    /\ UNCHANGED <<env, circuit_state, opened_at, obs>>

\* _set_state(OPEN), first command: self.redis.set(self.state_key, "OPEN", ex=600)
RfSetOpen(w) ==
    /\ rq[w].pc = "rf_set_open"
    /\ \E err \in {~redis_up} :
         LET r == Mark(Cur(w), err)
             p == Name(r.layer)
             old == circuit_state[p].val
             o1 == ObsOnWrite(obs, p, old, "OPEN")
         IN  /\ circuit_state' = IF err THEN circuit_state
                   ELSE [circuit_state EXCEPT ![p] =
                            [val |-> "OPEN", exp |-> StateExpiry(now)]]
             /\ obs' = IF err THEN obs
                       ELSE IF old \in {"absent", "CLOSED"}
                               /\ r.failures = FAILURE_THRESHOLD
                            THEN [o1 EXCEPT !.clean[p] = TRUE]
                            ELSE o1
             /\ rq' = [rq EXCEPT ![w] =
                   IF err THEN NextProvider(r) ELSE [r EXCEPT !.pc = "rf_set_opened"]]
    /\ UNCHANGED <<env, opened_at, failures>>

\* _set_state(OPEN), second command:
\* self.redis.set(self.opened_key, str(time.time()), ex=600)
RfSetOpened(w) ==
    /\ rq[w].pc = "rf_set_opened"
    /\ \E err \in {~redis_up} :
         LET r == Mark(Cur(w), err)
             p == Name(r.layer)
         IN  /\ opened_at' = IF err THEN opened_at
                   ELSE [opened_at EXCEPT ![p] = [val |-> now, exp |-> now + STATE_TTL]]
             /\ rq' = [rq EXCEPT ![w] = NextProvider(r)]
    /\ UNCHANGED <<env, circuit_state, failures, obs>>

\* ---------------------------------------------------------------------------
\* RAGChatService.generate_response
\* ---------------------------------------------------------------------------
\* variant: the notice for every fallback, the static one included
NeedsNoticeAny(fallback_used, provider_used) == fallback_used

\* if fallback_used and provider_used != "static_fallback"
NeedsNotice(fallback_used, provider_used) ==
    fallback_used /\ provider_used # "static_fallback"

\* POST /chat: the conversation id is the supplied one or a fresh uuid4
ChatStart(w) ==
    /\ rq[w].pc = "idle"
    /\ \E cid \in ConversationIds :
         rq' = [rq EXCEPT ![w] = [IdleReq EXCEPT
                   !.pc = "chat_search", !.conv_in = cid,
                   !.conversation_id = IF cid = "" THEN "uuid4" ELSE cid]]
    /\ UNCHANGED <<env, store, obs>>

\* global_exception_handler: 429 for a ResourceExhausted or a message holding
\* "429", 500 for every other exception
HandlerStatus(exc) == IF exc = "rate_limit" THEN 429 ELSE 500

\* an exception of kind exc leaves generate_response at step, and the chat endpoint
\* with it: the handler builds the HTTP response
ChatRaise(r, step, exc) ==
    [r EXCEPT !.chat_raised = step, !.exc = exc, !.http = HandlerStatus(exc),
              !.emb_calls = 0, !.pc = "chat_done"]

\* generate_embedding under tenacity (no exception filter, reraise=True): after
\* n calls, the last of which ended with out
EmbedRetries(out, n) == out # "ok" /\ n < EMBED_ATTEMPTS

\* Step 1: embedding_service.search_similar, one embed_content call per step and
\* find_similar after the call that succeeds; an exception leaves generate_response
ChatSearch(w) ==
    /\ rq[w].pc = "chat_search"
    /\ \E out \in EmbedOutcomes, found \in BOOLEAN :
         LET r == rq[w]
             n == r.emb_calls + 1
         IN  /\ out # "ok" => found
             /\ rq' = [rq EXCEPT ![w] =
                   IF EmbedRetries(out, n) THEN [r EXCEPT !.emb_calls = n]
                   ELSE IF out # "ok" THEN ChatRaise(r, "search_similar", out)
                   ELSE IF found THEN [r EXCEPT !.emb_calls = 0, !.pc = "chat_history"]
                   ELSE ChatRaise(r, "search_similar", "error")]
    /\ UNCHANGED <<env, store, obs>>

\* Steps 2-4: get_history, build the prompt, enter llm_router.generate
ChatHistory(w) ==
    /\ rq[w].pc = "chat_history"
    /\ \E ok \in BOOLEAN :
         rq' = [rq EXCEPT ![w] =
                   IF ok THEN EnterGenerate(rq[w])
                   ELSE ChatRaise(rq[w], "get_history", "error")]
    /\ UNCHANGED <<env, store, obs>>

\* the router returned or raised: build the answer, with the notice when needed
ChatAfterRouter(w) ==
    /\ rq[w].pc = "gen_done"
    /\ LET r == rq[w]
           res == r.result
       IN  rq' = [rq EXCEPT ![w] =
              IF r.raised # "none"
              THEN [IdleReq EXCEPT
                        !.conv_in = r.conv_in, !.conversation_id = r.conversation_id,
                        !.hits = r.hits,
                        !.raised = r.raised,
                        !.chat_raised = "router", !.exc = "error",
                        !.http = HandlerStatus("error"), !.pc = "chat_done"]
              ELSE [IdleReq EXCEPT
                        !.conv_in = r.conv_in, !.conversation_id = r.conversation_id,
                        !.hits = r.hits,
                        !.result = res,
                        !.answer = IF NeedsNotice(res.fallback_used, res.provider)
                                   THEN Append(res.text, FallbackNotice) ELSE res.text,
                        !.pc = "chat_save"]]
    /\ UNCHANGED <<env, store, obs>>

\* Step 5: conversation_store.save_turn; an exception leaves generate_response
ChatSave(w) ==
    /\ rq[w].pc = "chat_save"
    /\ \E ok \in BOOLEAN :
         rq' = [rq EXCEPT ![w] =
                   IF ok THEN [@ EXCEPT !.http = 200, !.pc = "chat_done"]
                   ELSE ChatRaise(rq[w], "save_turn", "error")]
    /\ UNCHANGED <<env, store, obs>>

\* the response (or the exception) has left the service; the worker is free again
ChatFinish(w) ==
    /\ rq[w].pc = "chat_done"
    /\ rq' = [rq EXCEPT ![w] = IdleReq]
    /\ UNCHANGED <<env, store, obs>>

\* ---------------------------------------------------------------------------
\* Specifications
\* ---------------------------------------------------------------------------
\* the steps of LLMRouter.generate
RouterStep(w) ==
    \/ GsGetState(w)
    \/ GsGetOpened(w)
    \/ GsSetHalf(w)
    \/ Call(w)
    \/ Metrics(w)
    \/ RsDelete(w)
    \/ RsSetClosed(w)
    \/ RfIncr(w)
    \/ RfExpire(w)
    \/ RfSetOpen(w)
    \/ RfSetOpened(w)

\* await router.generate(prompt) by a caller other than the chat service
RouterStart(w) ==
    /\ rq[w].pc = "idle"
    /\ rq' = [rq EXCEPT ![w] = EnterGenerate(IdleReq)]
    /\ UNCHANGED <<env, store, obs>>

\* the caller has the result (or the exception)
RouterFinish(w) ==
    /\ rq[w].pc = "gen_done"
    /\ rq' = [rq EXCEPT ![w] = IdleReq]
    /\ UNCHANGED <<env, store, obs>>

\* one worker serving one router request after the other
Next ==
    \/ Tick
    \/ RedisFails
    \/ RedisRecovers
    \/ RouterStart("w1")
    \/ RouterStep("w1")
    \/ RouterFinish("w1")

Spec == Init /\ [][Next]_vars

\* RAGChatService.__init__ without a redis_client argument, as get_chat_service
\* calls it: its own Redis client, created with decode_responses=True
ServiceDefault(c) == c.redis /\ c.decode_responses

\* the chat service over the router: the client it builds itself, or the
\* redis_client / llm_router handed to its constructor
InitChat == Init

NextChat ==
    \/ Tick
    \/ RedisFails
    \/ RedisRecovers
    \/ ChatStart("w1")
    \/ ChatSearch("w1")
    \/ ChatHistory("w1")
    \/ RouterStep("w1")
    \/ ChatAfterRouter("w1")
    \/ ChatSave("w1")
    \/ ChatFinish("w1")

SpecChat == InitChat /\ [][NextChat]_vars

\* ---------------------------------------------------------------------------
\* Properties
\* ---------------------------------------------------------------------------
Returned(w) == rq[w].pc = "gen_done" /\ rq[w].raised = "none"

Attempted(r) == {r.attempts[k] : k \in 1..Len(r.attempts)}

FullAttempts == IF cfg.secondary THEN <<"primary", "secondary">> ELSE <<"primary">>

\* C1: LLMRouter.generate never lets an exception reach its caller: whatever the
\* providers do, whatever the breaker keys hold, whether the client returns bytes
\* or text, and whatever store errors occur, it ends by returning a result whose
\* text is not empty.
C1_GenerateNeverRaises ==
    \A w \in Workers :
        rq[w].pc = "gen_done" =>
            /\ rq[w].raised = "none"
            /\ rq[w].result # NoResult
            /\ rq[w].result.text # <<>>

\* C2: every chat request whose only failures are LLM provider failures (vector
\* search, history and save succeed) ends with a non-empty answer and a
\* conversation_id: the supplied one, or a freshly minted one.
C2_ChatAlwaysAnswers ==
    \A w \in Workers :
        (rq[w].pc = "chat_done"
            /\ rq[w].chat_raised \notin {"search_similar", "get_history", "save_turn"})
        => /\ rq[w].chat_raised = "none"
           /\ rq[w].answer # <<>>
           /\ rq[w].conversation_id # ""
           /\ (rq[w].conv_in # "" => rq[w].conversation_id = rq[w].conv_in)

\* C3: when generate returns, it returns the static responder (provider
\* static_fallback, fallback_used true, the static text) if every provider of the
\* attempt list failed or the list is empty; otherwise it returns a provider of
\* the attempt list, namely one that answered.
C3_StaticIffAllFail ==
    \A w \in Workers :
        Returned(w) =>
            LET r == rq[w]
                allFailed == \A l \in Attempted(r) : r.tried[l] = "failed"
            IN  /\ allFailed =>
                      /\ r.result.provider = "static_fallback"
                      /\ r.result.fallback_used
                      /\ r.result.text = StaticText
                /\ ~allFailed =>
                      /\ r.result.layer \in Attempted(r)
                      /\ r.result.provider = Name(r.result.layer)
                      /\ r.tried[r.result.layer] = "ok"

\* C4: for a breaker tripped from CLOSED by the T-th failure, while the store
\* answers: can_attempt is false as long as less than D has passed since the trip,
\* and it does not answer true a second time before the state key changes again.
C4_RefusesThenOneProbe ==
    \A w \in Workers :
        LET r == rq[w]
            g == r.gs
        IN  (g.ret # "none" /\ g.ctx = "can_attempt" /\ ~r.storeErr
                /\ obs.clean[Name(g.layer)])
            => /\ (opened_at[Name(g.layer)].val >= 0
                     /\ now - opened_at[Name(g.layer)].val < OPEN_DURATION)
                  => g.ret = "OPEN"
               /\ ~g.again

\* C5: a request that finds the primary's breaker OPEN for less than D and the
\* secondary's breaker closed, with the store answering, never calls the primary,
\* puts the secondary first, and returns the secondary's response when its call
\* succeeds; for every client configuration, the chat service's included.
C5_OpenPrimarySkipped ==
    \A w \in Workers :
        LET r == rq[w]
        IN  (r.pc = "gen_done" /\ r.sawOpen /\ r.secClosed /\ cfg.secondary
                /\ ~r.storeErr)
            => /\ r.raised = "none"
               /\ r.tried["primary"] = "no"
               /\ r.attempts = <<"secondary">>
               /\ r.hist["secondary"] = <<"ok">> =>
                      /\ r.result.provider = Name("secondary")
                      /\ r.result.text = ProviderText(Name("secondary"))

\* C6 as stated: whenever a store command of get_state errors, get_state returns
\* CLOSED.
C6_AnyErrorGivesClosed ==
    \A w \in Workers :
        (rq[w].gs.ret # "none" /\ rq[w].gs.anyErr) => rq[w].gs.ret = "CLOSED"

\* C6: fail-open. A get_state whose read of the state key or of opened_at errors
\* returns CLOSED; one whose only failing command is the write of HALF_OPEN returns
\* HALF_OPEN; in both cases can_attempt is true and the provider joins the attempt
\* list. A request none of whose store commands succeeds (or that has no store)
\* does not raise and is routed as with all breakers CLOSED: primary, then
\* secondary, then static.
C6_FailOpen ==
    \A w \in Workers :
        LET r == rq[w]
            g == r.gs
        IN  /\ (g.ret # "none" /\ g.readErr) => g.ret = "CLOSED"
            /\ (g.ret # "none" /\ g.anyErr /\ ~g.readErr) => g.ret = "HALF_OPEN"
            /\ (g.ret # "none" /\ g.anyErr /\ g.ctx = "can_attempt")
                  => g.layer \in Attempted(r)
            /\ (r.pc = "gen_done" /\ ~r.storeOk) =>
                  /\ r.raised = "none"
                  /\ r.attempts = FullAttempts
                  /\ r.tried["primary"] = "ok" =>
                        r.result.layer = "primary" /\ r.tried["secondary"] = "no"
                  /\ (r.tried["primary"] = "failed" /\ r.tried["secondary"] = "ok")
                        => r.result.layer = "secondary"
                  /\ (\A l \in Attempted(r) : r.tried[l] = "failed")
                        => r.result.layer = "static"

\* C7: the request that finds the primary's breaker tripped and D elapsed, with
\* the store answering, reaches the primary, calls it exactly once, and after a
\* successful call the state key holds CLOSED and the failure counter is gone.
C7_ProbeOnceThenClosed ==
    \A w \in Workers :
        LET r == rq[w]
            p == Name("primary")
        IN  (r.probe /\ ~r.storeErr) =>
               /\ r.raised = "none"
               /\ Len(r.hist["primary"]) <= 1
               /\ r.pc = "gen_done" =>
                     /\ "primary" \in Attempted(r)
                     /\ r.tried["primary"] = "ok" =>
                           /\ circuit_state[p].val = "CLOSED"
                           /\ failures[p] = AbsentCounter

\* a request served during an outage from its first store command to its last is
\* answered by the primary although the primary's state key holds OPEN
C6_Witness ==
    \E w \in Workers :
        /\ rq[w].pc = "gen_done"
        /\ cfg.redis /\ rq[w].storeErr /\ ~rq[w].storeOk
        /\ circuit_state[Name("primary")].val = "OPEN"
        /\ rq[w].result.layer = "primary"

\* C8: within one request a provider is called at most 3 times; every call but
\* the last ended with a ConnectionError/TimeoutError; the attempt is given up
\* only after a non-transient error or the third call; two transient errors
\* followed by a success yield that provider's own response.
C8_RetryOnlyTransient ==
    \A w \in Workers : \A l \in Layers :
        LET r == rq[w]
            h == r.hist[l]
        IN  /\ Len(h) <= STOP_AFTER_ATTEMPT
            /\ \A k \in 1..(Len(h) - 1) : h[k] = "transient"
            /\ (r.layer = l /\ r.pc = "rf_incr") =>
                  \/ r.tried[l] = "ok"
                  \/ (h # <<>> /\ (h[Len(h)] = "fatal" \/ Len(h) = STOP_AFTER_ATTEMPT))
            /\ h = <<"transient", "transient", "ok">> =>
                  /\ r.tried[l] = "ok"
                  /\ r.response_text = ProviderText(Name(l))

\* the secondary answered on its third call, after two transient errors
C8_Witness ==
    \E w \in Workers :
        /\ rq[w].pc = "gen_done"
        /\ rq[w].hist["secondary"] = <<"transient", "transient", "ok">>
        /\ rq[w].result.provider = Name("secondary")

\* C9 as stated: fallback_used is false exactly when the answering provider is
\* the first entry of the attempt list.
C9_FalseIffFirstEntry ==
    \A w \in Workers :
        Returned(w) =>
            (rq[w].result.fallback_used = FALSE
                <=> (rq[w].attempts # <<>> /\ rq[w].result.layer = rq[w].attempts[1]))

\* C9: fallback_used is false exactly when the answering provider is the primary;
\* a secondary that answers reports true, also as first entry of the attempt list.
C9_FalseIffPrimary ==
    \A w \in Workers :
        Returned(w) =>
            (rq[w].result.fallback_used = FALSE
                <=> rq[w].result.provider = Name("primary"))

\* the primary was left out by its open breaker and the secondary answered as
\* the first entry of the attempt list
C9_Witness ==
    \E w \in Workers :
        /\ Returned(w)
        /\ rq[w].attempts = <<"secondary">>
        /\ rq[w].result.provider = Name("secondary")
        /\ rq[w].result.fallback_used

\* C10: the chat answer is the router's text followed by the backup-system notice
\* exactly when the secondary answered; the static text and the primary's text
\* are returned verbatim.
C10_NoticeIffSecondary ==
    \A w \in Workers :
        LET r == rq[w]
        IN  (r.pc \in {"chat_save", "chat_done"} /\ r.result # NoResult) =>
               r.answer = IF r.result.provider = Name("secondary")
                          THEN Append(r.result.text, FallbackNotice)
                          ELSE r.result.text

\* a chat answer of the secondary, ending with the notice
C10_Witness ==
    \E w \in Workers :
        /\ rq[w].pc = "chat_done"
        /\ rq[w].chat_raised = "none"
        /\ rq[w].result.provider = Name("secondary")
        /\ rq[w].answer = Append(ProviderText(Name("secondary")), FallbackNotice)

\* C11: a chat request whose save_turn fails still returns its response: HTTP 200
\* with the answer and the conversation_id produced for the request.
C11_SaveFailureDoesNotBlock ==
    \A w \in Workers :
        (rq[w].pc = "chat_done" /\ rq[w].chat_raised = "save_turn") =>
            /\ rq[w].http = 200
            /\ rq[w].answer # <<>>
            /\ rq[w].conversation_id # ""

\* C12: no chat request ends as HTTP 429, whatever upstream call (the query
\* embedding included) was rate-limited while serving it.
C12_RateLimitNeverSurfaces ==
    \A w \in Workers : rq[w].pc = "chat_done" => rq[w].http # 429

\* ---------------------------------------------------------------------------
\* Conversation stores: what both have in common
\* ---------------------------------------------------------------------------
\* the n-th turn saved to a conversation: question n and answer n
Turn(q, a) == [question |-> q, answer |-> a]

\* limits get_history is called with; the default is 10
Limits == {0, 1, 2, DEFAULT_LIMIT}

Min(a, b) == IF a <= b THEN a ELSE b

\* Python's seq[-k:]: the last k elements for 0 < k < len, the whole list for
\* k = 0 and for k >= len
PyLast(seq, k) ==
    IF k <= 0 \/ k >= Len(seq) THEN seq
    ELSE SubSeq(seq, Len(seq) - k + 1, Len(seq))

\* an operation that has returned
Finished(kind, c, limit, turns, greeting) ==
    [kind |-> kind, pc |-> "none", conv |-> c, limit |-> limit, turns |-> turns,
     greeting |-> greeting, raised |-> FALSE]

\* an operation that an exception has left
Raised(kind, c) == [NoOp EXCEPT !.kind = kind, !.conv = c, !.raised = TRUE]

\* variant: the two lists exchanged
WelcomeListSwapped(history) == IF history # <<>> THEN "new" ELSE "returning"

\* generate_welcome: "if history:" picks the list of greetings
WelcomeList(history) == IF history # <<>> THEN "returning" ELSE "new"

\* ---------------------------------------------------------------------------
\* InMemoryConversationStore
\* ---------------------------------------------------------------------------
\* variant: the oldest turns are kept
KeepFirst(history) ==
    IF Len(history) > MAX_TURNS THEN SubSeq(history, 1, MAX_TURNS) ELSE history

\* "Keep only last 10 turns"
KeepLast(history) ==
    IF Len(history) > MAX_TURNS THEN PyLast(history, MAX_TURNS) ELSE history

\* InMemoryConversationStore.save_turn
MemSaveTurn(c) ==
    /\ saved[c] < MaxSaves
    /\ conversations' = [conversations EXCEPT
          ![c] = KeepLast(Append(@, Turn(saved[c] + 1, saved[c] + 1)))]
    /\ saved' = [saved EXCEPT ![c] = @ + 1]
    /\ op' = Finished("save_turn", c, 0, <<>>, "none")
    /\ UNCHANGED <<routerVars, restVars, db>>

\* InMemoryConversationStore.get_history
MemGetHistory(c, limit) ==
    /\ op' = Finished("get_history", c, limit, PyLast(conversations[c], limit), "none")
    /\ UNCHANGED <<routerVars, restVars, conversations, db, saved>>

\* RAGChatService.generate_welcome over the in-memory store
MemWelcome(c) ==
    /\ op' = Finished("welcome", c, DEFAULT_LIMIT, PyLast(conversations[c], DEFAULT_LIMIT),
                      WelcomeList(PyLast(conversations[c], DEFAULT_LIMIT)))
    /\ UNCHANGED <<routerVars, restVars, conversations, db, saved>>

InitMem ==
    /\ cfg = [redis |-> FALSE, decode_responses |-> FALSE, secondary |-> TRUE]
    /\ RouterInit
    /\ ConvInit
    /\ RestInit

NextMem ==
    \/ \E c \in ConvKeys : MemSaveTurn(c)
    \/ \E c \in ConvKeys, limit \in Limits : MemGetHistory(c, limit)
    \/ \E c \in ConvKeys : MemWelcome(c)

SpecMem == InitMem /\ [][NextMem]_vars

\* the k most recent of n saved turns, oldest first
Recent(n, k) == [i \in 1..Min(n, k) |-> Turn(n - Min(n, k) + i, n - Min(n, k) + i)]

\* C16: after any sequence of save_turn calls the in-memory store holds, per
\* conversation, at most 10 turns: the 10 most recently saved ones (all of them
\* when fewer were saved), in save order.
C16_MemoryKeepsLastTen ==
    \A c \in ConvKeys :
        /\ Len(conversations[c]) <= MAX_TURNS
        /\ conversations[c] = Recent(saved[c], MAX_TURNS)

\* an eleventh turn was saved to a conversation and the first one is gone
C16_Witness ==
    \E c \in ConvKeys :
        /\ saved[c] = MAX_TURNS + 1
        /\ Len(conversations[c]) = MAX_TURNS
        /\ conversations[c][1] = Turn(2, 2)

\* ---------------------------------------------------------------------------
\* PostgreSQLConnection: one psycopg2 connection, autocommit off
\* ---------------------------------------------------------------------------
\* how cursor.execute ends: normally; with an error of the server, which aborts
\* the transaction; with an exception raised while the parameters are adapted,
\* before anything is sent; or with the connection lost
ExecOutcomes == {"ok", "server", "client", "lost"}

\* the connection is gone: the server rolls its open transaction back
Rollback(d) ==
    [d EXCEPT !.txn = "idle", !.pconvs = {}, !.pmsgs = [c \in ConvKeys |-> <<>>]]

\* the first statement after a commit opens a transaction
Begin(d) == IF d.txn = "idle" THEN [d EXCEPT !.txn = "open"] ELSE d

\* cursor.execute raises: by its own outcome, or because the transaction is
\* aborted and the server refuses every statement until a rollback
ExecFails(d, out) == out # "ok" \/ d.txn = "aborted"

\* the connection after an execute that raised
AfterFailure(d, out) ==
    IF out = "lost" THEN Rollback(d)
    ELSE IF d.txn = "aborted" \/ out = "client" THEN d
    ELSE [d EXCEPT !.txn = "aborted"]

\* self._conn.commit(): an aborted transaction ends as a rollback
Commit(d) ==
    IF d.txn = "aborted" THEN Rollback(d)
    ELSE [d EXCEPT !.txn = "idle",
                   !.convs = @ \union d.pconvs,
                   !.msgs = [c \in ConvKeys |-> d.msgs[c] \o d.pmsgs[c]],
                   !.pconvs = {},
                   !.pmsgs = [c \in ConvKeys |-> <<>>]]

\* the rows of messages the connection sees for conversation c: the committed
\* ones and those of its own open transaction
Visible(d, c) == d.msgs[c] \o d.pmsgs[c]

\* ---------------------------------------------------------------------------
\* PostgresConversationStore
\* ---------------------------------------------------------------------------
\* the two rows of one INSERT; created_at is the rank of their transaction's
\* CURRENT_TIMESTAMP among those of the conversation
TurnRows(n) ==
    <<[role |-> "user", content |-> n, created_at |-> n],
      [role |-> "assistant", content |-> n, created_at |-> n]>>

RECURSIVE InsertAsc(_, _)
\* row put behind the rows of sorted whose created_at is not greater
InsertAsc(sorted, row) ==
    IF sorted = <<>> THEN <<row>>
    ELSE IF sorted[Len(sorted)].created_at <= row.created_at THEN Append(sorted, row)
    ELSE Append(InsertAsc(SubSeq(sorted, 1, Len(sorted) - 1), row), sorted[Len(sorted)])

RECURSIVE OrderByCreatedAtAsc(_)
\* ORDER BY created_at ASC; rows of one statement stay in the order of its VALUES
OrderByCreatedAtAsc(rows) ==
    IF rows = <<>> THEN <<>>
    ELSE InsertAsc(OrderByCreatedAtAsc(SubSeq(rows, 1, Len(rows) - 1)), rows[Len(rows)])

\* LIMIT k
SqlLimit(rows, k) == SubSeq(rows, 1, Min(k, Len(rows)))

RECURSIVE GroupTurns(_, _)
\* "while i < len(messages) - 1": pairs a user row with the assistant row after it
GroupTurns(messages, i) ==
    IF i > Len(messages) - 1 THEN <<>>
    ELSE IF messages[i].role = "user" /\ messages[i + 1].role = "assistant"
         THEN <<Turn(messages[i].content, messages[i + 1].content)>>
              \o GroupTurns(messages, i + 2)
         ELSE GroupTurns(messages, i + 1)

\* what get_history returns when its SELECT succeeds
PgTurns(d, c, limit) ==
    PyLast(GroupTurns(SqlLimit(OrderByCreatedAtAsc(Visible(d, c)), limit * 2), 1), limit)

\* save_turn, first statement: INSERT INTO conversations ... ON CONFLICT DO NOTHING
PgInsertConv(c) ==
    /\ op.pc = "none"
    /\ saved[c] < MaxSaves
    /\ \E out \in ExecOutcomes :
         IF ExecFails(db, out)
         THEN /\ db' = AfterFailure(db, out)
              /\ op' = Raised("save_turn", c)
         ELSE /\ db' = [Begin(db) EXCEPT
                    !.pconvs = IF c \in db.convs THEN @ ELSE @ \union {c}]
              /\ op' = [NoOp EXCEPT !.kind = "save_turn", !.conv = c,
                                    !.pc = "insert_msgs"]
    /\ UNCHANGED <<routerVars, restVars, conversations, saved>>

\* save_turn, second statement: INSERT INTO messages, both rows
PgInsertMsgs ==
    /\ op.pc = "insert_msgs"
    /\ \E out \in ExecOutcomes :
         IF ExecFails(db, out)
         THEN /\ db' = AfterFailure(db, out)
              /\ op' = Raised("save_turn", op.conv)
         ELSE /\ db' = [db EXCEPT !.pmsgs[op.conv] = @ \o TurnRows(saved[op.conv] + 1)]
              /\ op' = [op EXCEPT !.pc = "commit"]
    /\ UNCHANGED <<routerVars, restVars, conversations, saved>>

\* save_turn, self.db.commit()
PgCommit ==
    /\ op.pc = "commit"
    /\ \E out \in {"ok", "lost"} :
         IF out = "ok"
         THEN /\ db' = Commit(db)
              /\ saved' = [saved EXCEPT ![op.conv] = @ + 1]
              /\ op' = Finished("save_turn", op.conv, 0, <<>>, "none")
         ELSE /\ db' = Rollback(db)
              /\ saved' = saved
              /\ op' = Raised("save_turn", op.conv)
    /\ UNCHANGED <<routerVars, restVars, conversations>>

\* PostgresConversationStore.get_history
PgGetHistory(c, limit) ==
    /\ op.pc = "none"
    /\ \E out \in ExecOutcomes :
         IF ExecFails(db, out)
         THEN /\ db' = AfterFailure(db, out)
              /\ op' = Raised("get_history", c)
         ELSE /\ db' = Begin(db)
              /\ op' = Finished("get_history", c, limit, PgTurns(db, c, limit), "none")
    /\ UNCHANGED <<routerVars, restVars, conversations, saved>>

\* RAGChatService.generate_welcome over the PostgreSQL store
PgWelcome(c) ==
    /\ op.pc = "none"
    /\ \E out \in ExecOutcomes :
         IF ExecFails(db, out)
         THEN /\ db' = AfterFailure(db, out)
              /\ op' = Raised("welcome", c)
         ELSE /\ db' = Begin(db)
              /\ op' = Finished("welcome", c, DEFAULT_LIMIT, PgTurns(db, c, DEFAULT_LIMIT),
                                WelcomeList(PgTurns(db, c, DEFAULT_LIMIT)))
    /\ UNCHANGED <<routerVars, restVars, conversations, saved>>

\* the process dies, at any point of save_turn or between two operations; the
\* next one starts with a new store and a new connection
PgCrash ==
    /\ db.txn # "idle" \/ op # NoOp
    /\ db' = Rollback(db)
    /\ op' = NoOp
    /\ UNCHANGED <<routerVars, restVars, conversations, saved>>

InitPg == InitMem

NextPg ==
    \/ \E c \in ConvKeys : PgInsertConv(c)
    \/ PgInsertMsgs
    \/ PgCommit
    \/ \E c \in ConvKeys, limit \in Limits : PgGetHistory(c, limit)
    \/ \E c \in ConvKeys : PgWelcome(c)
    \/ PgCrash

SpecPg == InitPg /\ [][NextPg]_vars

\* C13: a get_history(c) with the default limit that follows a successful
\* save_turn on c returns the turn saved last as its most recent element,
\* however many turns were saved to c before.
C13_SavedTurnIsReturned ==
    (op.kind = "get_history" /\ ~op.raised /\ op.limit = DEFAULT_LIMIT
        /\ saved[op.conv] > 0)
    => /\ op.turns # <<>>
       /\ op.turns[Len(op.turns)] = Turn(saved[op.conv], saved[op.conv])

\* C14: get_history(c, limit) returns the most recent limit turns saved to c, all
\* of them when fewer were saved, oldest first.
C14_MostRecentLimit ==
    (op.kind = "get_history" /\ ~op.raised) => op.turns = Recent(saved[op.conv], op.limit)

\* C15: whatever failure or crash interrupts save_turn, the committed tables hold
\* no conversation row without messages and no message without its partner: the
\* rows of every conversation are complete user/assistant pairs.
C15_NoPartialTurn ==
    \A c \in ConvKeys :
        /\ c \in db.convs => db.msgs[c] # <<>>
        /\ db.msgs[c] # <<>> => c \in db.convs
        /\ Len(db.msgs[c]) = 2 * saved[c]
        /\ \A k \in 1..saved[c] : SubSeq(db.msgs[c], 2 * k - 1, 2 * k) = TurnRows(k)

\* C20: generate_welcome calls neither the router nor a provider and leaves the
\* stored conversations as they are; when it returns, its greeting is from the
\* returning-user list exactly when the store holds a turn of the conversation.
C20_WelcomeIsStatic ==
    [][\A c \in ConvKeys :
          PgWelcome(c) =>
             /\ UNCHANGED <<routerVars, restVars, conversations, saved>>
             /\ db'.convs = db.convs /\ db'.msgs = db.msgs
             /\ ~op'.raised =>
                   /\ op'.greeting \in {"returning", "new"}
                   /\ op'.greeting = "returning" <=> saved[c] > 0]_vars

\* a welcome for a conversation that holds more turns than get_history reads
C20_Witness ==
    /\ op.kind = "welcome" /\ ~op.raised
    /\ op.greeting = "returning"
    /\ saved[op.conv] > DEFAULT_LIMIT

\* ---------------------------------------------------------------------------
\* PromptBuilder.build_history
\* ---------------------------------------------------------------------------
\* len(history_text) before any turn is added: the header line
HEADER_LEN == 29
\* len(f"Usuario: {q}\nAsistente: {a}\n\n") for an empty question and answer
TURN_OVERHEAD == 23
\* _estimate_tokens: 4 characters to the token
CHARS_PER_TOKEN == 4
\* the default of max_tokens
DEFAULT_MAX_TOKENS == 2048

\* turns of a history passed to build_history
MaxHistory == 3

\* lengths of the questions and answers of a history
QuestionLens == {1, 8, 8144}
AnswerLens == {0, 7}

\* a turn as build_history reads it: a text is its number of characters
HistoryTurns == [question : QuestionLens, answer : AnswerLens]
Histories == UNION {[1..n -> HistoryTurns] : n \in 0..MaxHistory}

\* the budgets build_history is called with
TokenBudgets == {0, 6, 7, 13, 14, 20, DEFAULT_MAX_TOKENS}

\* _estimate_tokens(text) for a text of len characters
EstimateTokens(len) == len \div CHARS_PER_TOKEN

\* len(turn_text)
TurnTextLen(turn) == TURN_OVERHEAD + turn.question + turn.answer

RECURSIVE IncludedTurnsStrict(_, _, _)
\* variant: a turn that uses up the budget exactly is left out
IncludedTurnsStrict(history, i, remaining_tokens) ==
    IF i = 0 THEN <<>>
    ELSE LET turn_tokens == EstimateTokens(TurnTextLen(history[i]))
         IN  IF turn_tokens >= remaining_tokens THEN <<>>
             ELSE Append(IncludedTurnsStrict(history, i - 1,
                                             remaining_tokens - turn_tokens),
                         history[i])

RECURSIVE IncludedTurns(_, _, _)
\* the loop over reversed(history) from turn i down: included_turns, oldest first
IncludedTurns(history, i, remaining_tokens) ==
    IF i = 0 THEN <<>>
    ELSE LET turn_tokens == EstimateTokens(TurnTextLen(history[i]))
         IN  IF turn_tokens > remaining_tokens THEN <<>>
             ELSE Append(IncludedTurns(history, i - 1, remaining_tokens - turn_tokens),
                         history[i])

\* variant of build_history over the strict loop
BuildHistoryStrict(history, max_tokens) ==
    IF history = <<>> THEN [header |-> FALSE, turns |-> <<>>]
    ELSE [header |-> TRUE,
          turns |-> IncludedTurnsStrict(history, Len(history),
                                        max_tokens - EstimateTokens(HEADER_LEN))]

\* build_history: whether the returned text has the header, and the turns it has
BuildHistory(history, max_tokens) ==
    IF history = <<>> THEN [header |-> FALSE, turns |-> <<>>]
    ELSE [header |-> TRUE,
          turns |-> IncludedTurns(history, Len(history),
                                  max_tokens - EstimateTokens(HEADER_LEN))]

RECURSIVE TurnsLen(_)
\* len("".join(included_turns))
TurnsLen(turns) ==
    IF turns = <<>> THEN 0
    ELSE TurnTextLen(turns[Len(turns)]) + TurnsLen(SubSeq(turns, 1, Len(turns) - 1))

\* len of the text build_history returned
BlockLen(header, turns) == (IF header THEN HEADER_LEN ELSE 0) + TurnsLen(turns)

\* build_history returns to its caller
BuildHistoryReturns ==
    /\ bh.pc = "called"
    /\ LET block == BuildHistory(bh.history, bh.max_tokens)
       IN  bh' = [bh EXCEPT !.pc = "returned", !.header = block.header,
                            !.turns = block.turns]
    /\ UNCHANGED exceptBh

\* build_history called with any history and any budget
InitHistory ==
    /\ cfg = [redis |-> FALSE, decode_responses |-> FALSE, secondary |-> TRUE]
    /\ RouterInit
    /\ ConvInit
    /\ sc = NewScraper("playwright", "memory", TRUE)
    /\ emb = NewEmbeddings(EMBEDDING_DIMENSION, QUERY_DIMENSION)
    /\ th = NoThreads
    /\ bp = NewProvider
    /\ \E history \in Histories, max_tokens \in TokenBudgets :
          bh = [NoBh EXCEPT !.pc = "called", !.history = history,
                            !.max_tokens = max_tokens]

NextHistory == BuildHistoryReturns

SpecHistory == InitHistory /\ [][NextHistory]_vars

\* C17: for every history and every max_tokens, the estimated token count (characters
\* divided by 4) of the text build_history returns is at most max_tokens
C17_HistoryFitsBudget ==
    bh.pc = "returned" =>
        EstimateTokens(BlockLen(bh.header, bh.turns)) <= bh.max_tokens

\* the estimate build_history makes of one turn
TurnTokens(turn) == EstimateTokens(TurnTextLen(turn))

\* what build_history leaves for the turns once the header is charged
TurnBudget(max_tokens) == max_tokens - EstimateTokens(HEADER_LEN)

\* the turns of the history that fit the budget on their own
FittingTurns(history, max_tokens) ==
    {i \in 1..Len(history) : TurnTokens(history[i]) <= TurnBudget(max_tokens)}

\* C29: if the history has at least one turn whose estimated tokens fit the history
\* budget, the most recent such turn is in the returned block, also when a newer
\* turn is too large to fit
C29_RecentFittingIncluded ==
    bh.pc = "returned" =>
        LET fitting == FittingTurns(bh.history, bh.max_tokens)
        IN  fitting # {} =>
                \E i \in fitting :
                    /\ \A j \in fitting : j <= i
                    /\ i > Len(bh.history) - Len(bh.turns)

RECURSIVE SuffixTokens(_, _)
\* the header's estimate plus the estimates of the k newest turns
SuffixTokens(history, k) ==
    IF k = 0 THEN EstimateTokens(HEADER_LEN)
    ELSE TurnTokens(history[Len(history) - k + 1]) + SuffixTokens(history, k - 1)

\* the k newest turns, oldest first
Suffix(history, k) == SubSeq(history, Len(history) - k + 1, Len(history))

CACHE_TTL == 3600

\* the event loop's clock advances by ClockStep up to MaxClock; the page is
\* rewritten up to version MaxVersion; Redis drops at most MaxEvictions keys
ClockStep == 1800
MaxClock == 3600
MaxVersion == 2
MaxEvictions == 1

\* the providers a ScraperService is constructed with
Browsers == {"playwright", "injected"}
CacheKinds == {"memory", "redis", "injected"}

\* how a cache command ends: InMemoryCache cannot fail; RedisCache answers, or meets
\* an exception that it swallows ("error"); a CacheProvider passed to the
\* constructor answers or raises
CacheOutcomes(kind) ==
    CASE kind = "memory" -> {"ok"}
      [] kind = "redis" -> {"ok", "error"}
      [] kind = "injected" -> {"ok", "raise"}

\* how fetch_page ends. PlaywrightBrowserProvider: "failed" when no context was
\* obtained; otherwise its finally clause awaits the None that put_nowait returns,
\* and the TypeError replaces the html or the wrapped exception
FetchOutcomes(browser) ==
    IF browser = "playwright" THEN {"failed", "type_error"} ELSE {"ok", "failed"}

\* title_elem.get_text(strip=True) if title_elem else None; version 2 of the page
\* has no title element
TitleOf(html) == IF html = 1 THEN "title-1" ELSE None

\* {field: parser.extract(soup, rule)} for the rules of a ruleset
Extract(html, rules) == <<html, rules>>

\* json.dumps({"title": title, "data": data}) and json.loads of it
JsonDumps(title, data) == <<"{", "title", title, "data", data, "}">>
JsonLoads(text) == [title |-> text[3], data |-> text[5]]

\* variant: the entry expires as it is written
ExpiryNow(t, ttl) == t

\* expiry = loop.time() + ttl, and Redis SETEX ttl
Expiry(t, ttl) == t + ttl

\* variant: an entry is still served at its expiry time
FreshInclusive(entry, t) == entry.present /\ t <= entry.expiry

\* the entry a cache get finds: time() < expiry
Fresh(entry, t) == entry.present /\ t < entry.expiry

\* the cache no longer holds what the followed scrape wrote under key
Unhold(last, key) ==
    IF CacheKey(Tracked.url, Tracked.rules) = key THEN [last EXCEPT !.held = FALSE]
    ELSE last

\* the record of the scrape of url and rules that has just succeeded
Follow(last, url, rules, scraped) ==
    IF url = Tracked.url /\ rules = Tracked.rules THEN scraped ELSE last

\* variant: the exception leaves scrape
ScrapeReraise(call, e) ==
    [call EXCEPT !.pc = "done", !.exc = e, !.raised = TRUE]

\* except Exception as e: return ScrapedData(url=url, success=False, error=str(e))
ScrapeCatch(call, e) ==
    [call EXCEPT !.pc = "done", !.exc = e,
                 !.result = ScrapedData(call.url, None, NoData, FALSE, FALSE, e)]

\* variant: use_cache is ignored
CachingAlways(use_cache, cache_enabled) == cache_enabled

\* if use_cache and settings.cache_enabled:
Caching(use_cache, cache_enabled) == use_cache /\ cache_enabled

\* scrape is called and looks its key up in the cache
ScrapeBegin(url, rules, use_cache, got) ==
    /\ sc.call.pc \in {"idle", "done"}
    /\ got \in CacheOutcomes(sc.cache_kind)
    /\ LET key == CacheKey(url, rules)
           entry == sc.cache[key]
           call == [NoScrape EXCEPT !.url = url, !.rules = rules,
                                    !.use_cache = use_cache, !.began = sc.clock,
                                    !.prev = Follow(NoLast, url, rules, sc.last)]
       IN  IF ~Caching(use_cache, sc.cache_enabled)
           THEN sc' = [sc EXCEPT !.call = [call EXCEPT !.pc = "fetch"]]
           ELSE IF got = "raise"
           THEN sc' = [sc EXCEPT !.call = ScrapeCatch([call EXCEPT !.missed = TRUE],
                                                      "cache_error")]
           ELSE IF got = "error"
           THEN sc' = [sc EXCEPT !.call = [call EXCEPT !.pc = "fetch", !.missed = TRUE]]
           ELSE IF Fresh(entry, sc.clock)
           THEN LET cached_data == JsonLoads(entry.value)
                IN  sc' = [sc EXCEPT
                        !.call = [call EXCEPT
                            !.pc = "done",
                            !.result = ScrapedData(url, cached_data.title,
                                                   cached_data.data, TRUE, TRUE, None)]]
           ELSE sc' = [sc EXCEPT !.call = [call EXCEPT !.pc = "fetch"],
                                 !.cache[key] = NoEntry]
    /\ UNCHANGED exceptSc

\* html = await self.browser.fetch_page(url)
ScrapeFetch(out) ==
    /\ sc.call.pc = "fetch"
    /\ out \in FetchOutcomes(sc.browser)
    /\ LET call == [sc.call EXCEPT !.fetched = TRUE]
       IN  sc' = [sc EXCEPT !.call =
                    IF out = "ok" THEN [call EXCEPT !.pc = "extract", !.html = sc.version]
                    ELSE ScrapeCatch(call, out)]
    /\ UNCHANGED exceptSc

\* parse, title, extract, cache.set and the return of scrape
ScrapeFinish(extracted, put) ==
    /\ sc.call.pc = "extract"
    /\ put \in CacheOutcomes(sc.cache_kind)
    /\ LET call == sc.call
           key == CacheKey(call.url, call.rules)
           title == TitleOf(call.html)
           data == Extract(call.html, call.rules)
           caching == Caching(call.use_cache, sc.cache_enabled)
           returned == [call EXCEPT !.pc = "done",
                            !.result = ScrapedData(call.url, title, data, FALSE, TRUE, None)]
           stored == [present |-> TRUE, value |-> JsonDumps(title, data),
                      expiry |-> Expiry(sc.clock, CACHE_TTL)]
           scraped == [present |-> TRUE, at |-> sc.clock, data |-> data,
                       held |-> put = "ok"]
       IN  IF ~extracted
           THEN sc' = [sc EXCEPT !.call = ScrapeCatch(call, "parse_error")]
           ELSE IF ~caching
           THEN sc' = [sc EXCEPT !.call = returned]
           ELSE IF put = "raise"
           THEN sc' = [sc EXCEPT !.call = ScrapeCatch(call, "cache_error")]
           ELSE IF put = "error"
           THEN sc' = [sc EXCEPT !.call = returned,
                                 !.last = Follow(sc.last, call.url, call.rules, scraped)]
           ELSE sc' = [sc EXCEPT
                        !.call = returned,
                        !.cache[key] = stored,
                        !.last = Follow(Unhold(sc.last, key), call.url, call.rules,
                                        scraped)]
    /\ UNCHANGED exceptSc

\* time passes on the event loop's clock
ClockTick ==
    /\ sc.clock + ClockStep <= MaxClock
    /\ sc' = [sc EXCEPT !.clock = sc.clock + ClockStep]
    /\ UNCHANGED exceptSc

\* the site rewrites the page
PageChanges ==
    /\ sc.version < MaxVersion
    /\ sc' = [sc EXCEPT !.version = sc.version + 1]
    /\ UNCHANGED exceptSc

\* Redis drops a key (eviction, FLUSHDB, restart)
CacheEvicts(key) ==
    /\ sc.cache_kind = "redis"
    /\ sc.cache[key].present
    /\ sc.evictions < MaxEvictions
    /\ sc' = [sc EXCEPT !.cache[key] = NoEntry, !.evictions = sc.evictions + 1,
                        !.last = Unhold(sc.last, key)]
    /\ UNCHANGED exceptSc

\* a ScraperService over any of the providers, caching enabled or not
InitScrape ==
    /\ cfg = [redis |-> FALSE, decode_responses |-> FALSE, secondary |-> TRUE]
    /\ RouterInit
    /\ ConvInit
    /\ bh = NoBh
    /\ emb = NewEmbeddings(EMBEDDING_DIMENSION, QUERY_DIMENSION)
    /\ th = NoThreads
    /\ bp = NewProvider
    /\ \E browser \in Browsers, cache_kind \in CacheKinds, cache_enabled \in BOOLEAN :
          sc = NewScraper(browser, cache_kind, cache_enabled)

NextScrape ==
    \/ \E url \in Urls, rules \in Rulesets, use_cache \in BOOLEAN,
          got \in {"ok", "error", "raise"} : ScrapeBegin(url, rules, use_cache, got)
    \/ \E out \in {"ok", "failed", "type_error"} : ScrapeFetch(out)
    \/ \E extracted \in BOOLEAN, put \in {"ok", "error", "raise"} :
          ScrapeFinish(extracted, put)
    \/ ClockTick
    \/ PageChanges
    \/ \E key \in CacheKeys : CacheEvicts(key)

SpecScrape == InitScrape /\ [][NextScrape]_vars

\* the scrape that has returned was answered from the cache with the data of the
\* earlier scrape of its URL and ruleset, without a page fetch
ServedFromCache ==
    /\ ~sc.call.raised
    /\ sc.call.result.success
    /\ sc.call.result.from_cache
    /\ ~sc.call.fetched
    /\ sc.call.result.data = sc.call.prev.data

\* a scrape with use_cache=true and caching enabled has returned, and it began less
\* than CACHE_TTL after such a scrape of the same URL and ruleset fetched the page
\* and returned its data
SecondWithinTtl ==
    /\ sc.call.pc = "done"
    /\ sc.call.use_cache /\ sc.cache_enabled
    /\ sc.call.prev.present
    /\ sc.call.began < sc.call.prev.at + CACHE_TTL

C19_ScrapeNeverRaises ==
    sc.call.pc = "done" =>
        /\ ~sc.call.raised
        /\ sc.call.exc # None =>
              /\ ~sc.call.result.success
              /\ sc.call.result.error # None
              /\ sc.call.result.data = NoData
        /\ sc.call.result.success => sc.call.result.error = None

C19_Witness ==
    /\ sc.call.pc = "done"
    /\ sc.call.exc = "cache_error"
    /\ sc.call.fetched
    /\ ~sc.call.result.success

\* ---------------------------------------------------------------------------
\* EmbeddingService over PostgreSQLEmbeddingRepository
\* ---------------------------------------------------------------------------
\* rows the embeddings table receives
MaxRows == 3

\* the lengths of the vectors the embedding model returns, and the values
\* EMBEDDING_DIMENSION is set to
Dimensions == {QUERY_DIMENSION, EMBEDDING_DIMENSION}

\* the type of the embedding column: vector (0), or vector(n)
ColumnTypes == {0} \cup Dimensions

\* INSERT ... VALUES (%s, %s::vector, %s): the cast takes any length, the column
\* takes the lengths its type allows
SaveAccepts(e, len) == e.column = 0 \/ e.column = len

\* %s::vector(768), and <=> against every row
FindSimilarAccepts(e, len) ==
    /\ len = QUERY_DIMENSION
    /\ \A i \in 1..Len(e.rows) : e.rows[i] = len

\* EmbeddingService.ingest: generate_embedding returns a vector of len floats,
\* save inserts it and commits
Ingest(len) ==
    /\ Len(emb.rows) < MaxRows
    /\ emb' = [emb EXCEPT
            !.rows = IF SaveAccepts(emb, len) THEN Append(@, len) ELSE @,
            !.call = [op |-> "ingest", vector |-> len,
                      raised |-> ~SaveAccepts(emb, len)]]
    /\ UNCHANGED exceptEmb

\* EmbeddingService.search_similar: the query vector has len floats
SearchSimilar(len) ==
    /\ emb' = [emb EXCEPT
            !.call = [op |-> "search", vector |-> len,
                      raised |-> ~FindSimilarAccepts(emb, len)]]
    /\ UNCHANGED exceptEmb

\* DELETE FROM embeddings WHERE id = %s
DeleteEmbedding(i) ==
    /\ i \in 1..Len(emb.rows)
    /\ emb' = [emb EXCEPT
            !.rows = SubSeq(@, 1, i - 1) \o SubSeq(@, i + 1, Len(@)),
            !.call = [op |-> "delete", vector |-> 0, raised |-> FALSE]]
    /\ UNCHANGED exceptEmb

\* any setting of EMBEDDING_DIMENSION over any type of the embedding column
InitEmb ==
    /\ cfg = [redis |-> FALSE, decode_responses |-> FALSE, secondary |-> TRUE]
    /\ RouterInit
    /\ ConvInit
    /\ bh = NoBh
    /\ sc = NewScraper("playwright", "memory", TRUE)
    /\ th = NoThreads
    /\ bp = NewProvider
    /\ \E dimension \in Dimensions, column \in ColumnTypes :
          emb = NewEmbeddings(dimension, column)

NextEmb ==
    \/ \E len \in Dimensions : Ingest(len)
    \/ \E len \in Dimensions : SearchSimilar(len)
    \/ \E i \in 1..MaxRows : DeleteEmbedding(i)

SpecEmb == InitEmb /\ [][NextEmb]_vars

\* C21: every persisted vector has the configured embedding dimension; a vector of
\* another length is rejected at save and nothing is stored; and find_similar uses
\* the dimension of save, so it takes a query vector of the configured dimension
\* over the vectors save stored
C21_PersistedHasConfiguredDimension ==
    /\ \A i \in 1..Len(emb.rows) : emb.rows[i] = emb.dimension
    /\ (emb.call.op = "ingest" /\ emb.call.vector # emb.dimension) => emb.call.raised
    /\ (emb.call.op = "search" /\ emb.call.vector = emb.dimension
            /\ \A i \in 1..Len(emb.rows) : emb.rows[i] = emb.dimension)
        => ~emb.call.raised

\* ---------------------------------------------------------------------------
\* LLMRouter.generate: the order of the providers, the failure counter
\* ---------------------------------------------------------------------------
\* the provider of layer l has been called by request r
Called(r, l) == r.tried[l] # "no" \/ Len(r.hist[l]) > 0

\* C26: with a primary whose every call raises a timeout, the request increases the
\* failure counter of the primary's breaker by the number of calls made on the
\* primary (the retry count, 3)
C26_CounterGrowsByAttempts ==
    [][\A w \in Workers :
          (/\ rq[w].pc = "rf_incr" /\ rq'[w].pc = "rf_expire"
           /\ rq[w].layer = "primary"
           /\ rq[w].hist["primary"] = <<"transient", "transient", "transient">>)
          => failures'[Name("primary")].n =
                failures[Name("primary")].n + Len(rq[w].hist["primary"])]_vars

\* C27: within one request the secondary is called only if the primary was omitted
\* or its attempt failed; once a provider's call has returned a response no other
\* provider is called and that response is the one returned, also when recording
\* the success in the breaker meets a problem
C27_StrictOrder ==
    \A w \in Workers :
        LET r == rq[w]
        IN  /\ Called(r, "secondary") =>
                  ("primary" \notin Attempted(r) \/ r.tried["primary"] = "failed")
            /\ r.tried["primary"] = "ok" => ~Called(r, "secondary")
            /\ Returned(w) =>
                  /\ r.tried["primary"] = "ok" =>
                        (r.result.layer = "primary"
                            /\ r.result.text = ProviderText(Name("primary")))
                  /\ r.tried["secondary"] = "ok" =>
                        (r.result.layer = "secondary"
                            /\ r.result.text = ProviderText(Name("secondary")))

\* ---------------------------------------------------------------------------
\* Two router requests in flight: generate does not await, so one event loop runs a
\* request to its end, but the worker processes of the service share the breaker
\* keys in Redis and interleave at every Redis command and provider call
\* ---------------------------------------------------------------------------
InitTwo ==
    /\ cfg \in {[redis |-> TRUE, decode_responses |-> FALSE, secondary |-> FALSE],
                [redis |-> TRUE, decode_responses |-> TRUE, secondary |-> TRUE]}
    /\ RouterInit
    /\ ConvInit
    /\ RestInit

NextTwo ==
    \/ Tick
    \/ \E w \in Workers : RouterStart(w)
    \/ \E w \in Workers : RouterStep(w)
    \/ \E w \in Workers : RouterFinish(w)

SpecTwo == InitTwo /\ [][NextTwo]_vars

\* C23: while a provider's breaker is HALF_OPEN at most one request is dispatched to
\* that provider before the breaker leaves HALF_OPEN, also when several requests
\* consult the breaker before the outcome of the probe is recorded
C23_OneProbeInHalfOpen ==
    \A p \in Providers :
        circuit_state[p].val = "HALF_OPEN" =>
            Cardinality({w \in Workers : \E l \in Layers :
                            Name(l) = p /\ Len(rq[w].hist[l]) > 0}) <= 1

\* ---------------------------------------------------------------------------
\* The breaker over a longer time: the failure window and the key TTLs run out
\* ---------------------------------------------------------------------------
\* the clock of SpecLong stops advancing here
MaxLongTime == 720

\* a router without a secondary, over either kind of client; the times of the
\* recorded failures are observed
InitLong ==
    /\ cfg \in {[redis |-> TRUE, decode_responses |-> FALSE, secondary |-> FALSE],
                [redis |-> TRUE, decode_responses |-> TRUE, secondary |-> FALSE]}
    /\ now = 0
    /\ circuit_state = [p \in Providers |-> AbsentKey]
    /\ opened_at = [p \in Providers |-> AbsentOpened]
    /\ failures = [p \in Providers |-> AbsentCounter]
    /\ redis_up = TRUE
    /\ outages = 0
    /\ rq = [w \in Workers |-> IdleReq]
    /\ obs = [InitObs EXCEPT !.timed = TRUE]
    /\ ConvInit
    /\ RestInit

NextLong ==
    \/ Advance(MaxLongTime)
    \/ RedisFails
    \/ RedisRecovers
    \/ RouterStart("w1")
    \/ RouterStep("w1")
    \/ RouterFinish("w1")

SpecLong == InitLong /\ [][NextLong]_vars

\* C22: a failure recorded while the breaker is HALF_OPEN always moves it to
\* OPEN, whatever the failure counter holds: record_failure, having incremented
\* the counter and renewed its TTL with Redis reachable, goes on to
\* _set_state(OPEN)
C22_HalfOpenFailureOpens ==
    [][\A w \in Workers :
          (/\ rq[w].pc = "rf_expire"
           /\ rq'[w].pc # "rf_expire"
           /\ redis_up
           /\ circuit_state[Name(rq[w].layer)].val = "HALF_OPEN")
          => rq'[w].pc = "rf_set_open"]_vars

\* C24: when record_failure trips a breaker that is CLOSED on its
\* FAILURE_THRESHOLD-th counted failure, the oldest of the counted failures is
\* at most FAILURE_WINDOW seconds old
C24_TripWithinWindow ==
    \A w \in Workers :
        LET p == Name(rq[w].layer) IN
        (/\ rq[w].pc = "rf_set_open"
         /\ rq[w].failures = FAILURE_THRESHOLD
         /\ circuit_state[p].val \in {"absent", "CLOSED"})
        => now - obs.since[p] <= FAILURE_WINDOW

\* C25: once STATE_TTL seconds have passed since the last recorded failure of a
\* provider, get_state no longer returns OPEN for it and can_attempt is true;
\* get_state returns OPEN only within STATE_TTL seconds of a recorded failure
C25_OpenEndsWithinTtl ==
    \A w \in Workers :
        LET g == rq[w].gs
            p == Name(g.layer)
        IN  g.ret # "none" =>
              /\ g.ret = "OPEN" => (obs.last[p] >= 0 /\ now - obs.last[p] < STATE_TTL)
              /\ (/\ g.ctx = "can_attempt"
                  /\ obs.last[p] >= 0
                  /\ now - obs.last[p] >= STATE_TTL) => CanAttempt(g.ret)

\* a breaker that was tripped lets a request through STATE_TTL seconds after
\* the last recorded failure
C25_Witness ==
    \E w \in Workers :
        LET g == rq[w].gs
            p == Name(g.layer)
        IN  /\ g.ret # "none"
            /\ g.ctx = "can_attempt"
            /\ obs.clean[p]
            /\ obs.last[p] >= 0
            /\ now - obs.last[p] >= STATE_TTL
            /\ CanAttempt(g.ret)

\* ---------------------------------------------------------------------------
\* InMemoryConversationStore.save_turn called from several threads: the method
\* takes no lock, and the interpreter may switch threads between any two of its
\* operations on the dict and on the list
\* ---------------------------------------------------------------------------
\* the conversation the threads save to
SharedConv == "c1"

\* the turns the conversation holds before the threads begin
InitialTurns == {0, MAX_TURNS - 1, MAX_TURNS}

ThreadNo(t) == IF t = "t1" THEN 1 ELSE IF t = "t2" THEN 2 ELSE 3

\* the history after n serial saves, n <= MAX_TURNS
InitialHistory(n) == [i \in 1..n |-> Turn(i, i)]

\* the turn thread t saves to a conversation that held n turns
ThreadTurn(n, t) == Turn(n + ThreadNo(t), n + ThreadNo(t))

\* the dict now holds another list object than the one the threads about to
\* append have looked up
Replaced(stale, t) ==
    [u \in Threads |-> IF u # t /\ th.pc[u] = "append" THEN TRUE ELSE stale[u]]

threadRest == <<routerVars, db, op, saved, bh, sc, emb, bp>>

\* thread t calls save_turn(conversation_id, question, answer)
SaveCall(t) ==
    /\ th.pc[t] = "idle"
    /\ th' = [th EXCEPT !.pc[t] = "check"]
    /\ UNCHANGED <<threadRest, conversations>>

\* if conversation_id not in self._conversations:
SaveCheck(t) ==
    /\ th.pc[t] = "check"
    /\ th' = [th EXCEPT !.pc[t] = IF th.present THEN "lookup" ELSE "create"]
    /\ UNCHANGED <<threadRest, conversations>>

\* self._conversations[conversation_id] = []
SaveCreate(t) ==
    /\ th.pc[t] = "create"
    /\ conversations' = [conversations EXCEPT ![SharedConv] = <<>>]
    /\ th' = [th EXCEPT !.pc[t] = "lookup", !.present = TRUE,
                        !.stale = Replaced(@, t)]
    /\ UNCHANGED threadRest

\* self._conversations[conversation_id], the list append is about to be called on
SaveLookup(t) ==
    /\ th.pc[t] = "lookup"
    /\ th' = [th EXCEPT !.pc[t] = "append", !.stale[t] = FALSE]
    /\ UNCHANGED <<threadRest, conversations>>

\* .append({"question": ..., "answer": ..., "timestamp": ...}) on the list
\* looked up; the dict sees it only if it still holds that list
SaveAppend(t) ==
    /\ th.pc[t] = "append"
    /\ conversations' = IF th.stale[t] THEN conversations
          ELSE [conversations EXCEPT ![SharedConv] = Append(@, ThreadTurn(th.n, t))]
    /\ th' = [th EXCEPT !.pc[t] = "len", !.stale[t] = FALSE]
    /\ UNCHANGED threadRest

\* if len(self._conversations[conversation_id]) > 10:
SaveLen(t) ==
    /\ th.pc[t] = "len"
    /\ th' = [th EXCEPT !.pc[t] =
                IF Len(conversations[SharedConv]) > MAX_TURNS THEN "slice" ELSE "done"]
    /\ UNCHANGED <<threadRest, conversations>>

\* self._conversations[conversation_id][-10:], a new list
SaveSlice(t) ==
    /\ th.pc[t] = "slice"
    /\ th' = [th EXCEPT !.pc[t] = "store",
                        !.tmp[t] = PyLast(conversations[SharedConv], MAX_TURNS)]
    /\ UNCHANGED <<threadRest, conversations>>

\* self._conversations[conversation_id] = <the slice>
SaveStore(t) ==
    /\ th.pc[t] = "store"
    /\ conversations' = [conversations EXCEPT ![SharedConv] = th.tmp[t]]
    /\ th' = [th EXCEPT !.pc[t] = "done", !.tmp[t] = <<>>,
                        !.stale = Replaced(@, t)]
    /\ UNCHANGED threadRest

\* a store that served n saves one after the other, then the threads
InitThreads ==
    /\ cfg = [redis |-> FALSE, decode_responses |-> FALSE, secondary |-> TRUE]
    /\ RouterInit
    /\ db = EmptyDb
    /\ op = NoOp
    /\ bh = NoBh
    /\ sc = NewScraper("playwright", "memory", TRUE)
    /\ emb = NewEmbeddings(EMBEDDING_DIMENSION, QUERY_DIMENSION)
    /\ bp = NewProvider
    /\ \E n \in InitialTurns :
          /\ conversations = [c \in ConvKeys |->
                                 IF c = SharedConv THEN InitialHistory(n) ELSE <<>>]
          /\ saved = [c \in ConvKeys |-> IF c = SharedConv THEN n ELSE 0]
          /\ th = [NoThreads EXCEPT !.present = n > 0, !.n = n]

NextThreads ==
    \E t \in Threads :
        \/ SaveCall(t)
        \/ SaveCheck(t)
        \/ SaveCreate(t)
        \/ SaveLookup(t)
        \/ SaveAppend(t)
        \/ SaveLen(t)
        \/ SaveSlice(t)
        \/ SaveStore(t)

SpecThreads == InitThreads /\ [][NextThreads]_vars

\* the orders in which the saves of the threads of S can be put one after the other
SerialOrders(S) ==
    {s \in [1..Cardinality(S) -> S] : \A i, j \in 1..Cardinality(S) : s[i] = s[j] => i = j}

\* what the store holds after the saves of s, run one after the other on a
\* conversation of n turns
SerialResult(n, s) ==
    KeepLast(InitialHistory(n) \o [i \in 1..Len(s) |-> ThreadTurn(n, s[i])])

\* C28: once the save_turn calls made by several threads on one conversation
\* have returned, the store holds what some serial order of these calls leaves:
\* the last min(n + k, MAX_TURNS) turns, none lost
C28_SavesSerializable ==
    LET done == {t \in Threads : th.pc[t] = "done"} IN
    (\A t \in Threads : th.pc[t] \in {"idle", "done"})
    => \E s \in SerialOrders(done) :
          conversations[SharedConv] = SerialResult(th.n, s)

\* ---------------------------------------------------------------------------
\* get_history and its limit
\* ---------------------------------------------------------------------------
\* C39: a get_history that returns, returns at most limit turns, for every
\* limit >= 0 (none for limit = 0)
C39_AtMostLimitTurns ==
    (op.kind = "get_history" /\ ~op.raised) => Len(op.turns) <= op.limit

\* ---------------------------------------------------------------------------
\* record_success and the breaker state
\* ---------------------------------------------------------------------------
\* the request r is inside record_success
InRecordSuccess(r) ==
    /\ r.ctx = "record_success"
    /\ r.pc \in {"gs_get_state", "gs_get_opened", "gs_set_half",
                 "rs_delete", "rs_set_closed"}

\* C40: the only change record_success makes to the breaker state is HALF_OPEN
\* to CLOSED and it never touches opened_at; when it ends with Redis reachable
\* the failure counter is cleared
C40_SuccessOnlyClosesHalfOpen ==
    [][\A w \in Workers :
          (InRecordSuccess(rq[w]) /\ rq'[w] # rq[w]) =>
              LET p == Name(rq[w].layer) IN
              /\ circuit_state'[p].val # circuit_state[p].val
                    => (/\ circuit_state[p].val = "HALF_OPEN"
                        /\ circuit_state'[p].val = "CLOSED")
              /\ opened_at'[p] = opened_at[p]
              /\ (~InRecordSuccess(rq'[w]) /\ redis_up) => failures'[p].n = 0]_vars

\* ---------------------------------------------------------------------------
\* The scrape cache: its key, its entries, and the calls that bypass it
\* ---------------------------------------------------------------------------
\* C31: a scrape answered from the cache returns data that was extracted with
\* its own ruleset, never the body cached for another ruleset of the same URL
C31_CachedBodyOfSameRuleset ==
    (sc.call.pc = "done" /\ sc.call.result.success /\ sc.call.result.from_cache)
    => sc.call.result.data = Extract(sc.call.result.data[1], sc.call.rules)
Hit(content, similarity) == [content |-> content, similarity |-> similarity]

\* what search_similar returns: no hit, one hit, more hits than are rendered
HitLists ==
    {<<>>,
     <<Hit("k1", 90)>>,
     <<Hit("k1", 90), Hit("k2", 80), Hit("k3", 70), Hit("k4", 60)>>}

\* StaticFallbackProvider._get_no_results_message
NoResultsMessage == <<"Sistema en Modo de Emergencia", "Disculpa las molestias">>

\* StaticFallbackProvider(search_results).generate_response(prompt): the heading,
\* then "{idx}. Fragmento Relevante (Similitud: {similarity:.0%})" and the content
\* for each of search_results[:3], then the closing line
StaticRender(search_results) ==
    IF search_results = <<>> THEN NoResultsMessage
    ELSE <<"Informacion Relevante Encontrada">>
         \o [idx \in 1..Min(3, Len(search_results)) |->
                <<idx, search_results[idx].similarity, search_results[idx].content>>]
         \o <<"intenta de nuevo en unos minutos">>

\* Step 1 of generate_response when the embedding call and find_similar succeed:
\* search_results = self.embedding_service.search_similar(...)
ChatSearchHits(w) ==
    /\ rq[w].pc = "chat_search"
    /\ \E search_results \in HitLists :
         rq' = [rq EXCEPT ![w] = [@ EXCEPT !.hits = search_results,
                                           !.pc = "chat_history"]]
    /\ UNCHANGED <<env, store, obs>>

\* the chat service over a bytes client and a single provider, its retrieval
\* working
InitStatic ==
    /\ cfg = [redis |-> TRUE, decode_responses |-> FALSE, secondary |-> FALSE]
    /\ RouterInit
    /\ ConvInit
    /\ RestInit

NextStatic ==
    \/ Tick
    \/ ChatStart("w1")
    \/ ChatSearchHits("w1")
    \/ ChatHistory("w1")
    \/ RouterStep("w1")
    \/ ChatAfterRouter("w1")
    \/ ChatSave("w1")
    \/ ChatFinish("w1")

SpecStatic == InitStatic /\ [][NextStatic]_vars

\* C35: an answer that comes from static_fallback is the static adapter's
\* rendering of the (at most three) top hits when retrieval returned hits, and
\* an apology when it returned none
C35_StaticAnswerRendersHits ==
    \A w \in Workers :
        (/\ rq[w].pc \in {"chat_save", "chat_done"}
         /\ rq[w].result.provider = "static_fallback")
        => IF rq[w].hits # <<>>
           THEN rq[w].answer = StaticRender(rq[w].hits)
           ELSE rq[w].answer \in {StaticText, NoResultsMessage}

\* ---------------------------------------------------------------------------
\* PlaywrightBrowserProvider: lazy browser start, the context pool, fetch_page.
\* The scraper service is a singleton, so the coroutines of concurrent requests
\* share one provider and interleave at every await
\* ---------------------------------------------------------------------------
\* max_contexts the provider is constructed with (the default is 5)
PoolSize == 2

\* fetch_page calls begun, at most
MaxFetches == 4

poolRest == <<routerVars, convVars, bh, sc, emb, th>>

\* the fetch of coroutine x
Fetch(x) == bp.f[x]

\* fetch_page(url) is called: _get_context, _ensure_browser and its test
\* "if self._browser is None", up to the first await
FetchCall(x) ==
    /\ Fetch(x).pc \in {"idle", "done"}
    /\ bp.fetches < MaxFetches
    /\ bp' = [bp EXCEPT !.fetches = @ + 1,
                        !.f[x] = IF bp.browser = 0
                                 THEN [NoFetch EXCEPT !.pc = "start"]
                                 ELSE [NoFetch EXCEPT !.pc = "get", !.qid = bp.qid]]
    /\ UNCHANGED poolRest

\* self._playwright = await async_playwright().start(), then launch is awaited
EnsureStarted(x) ==
    /\ Fetch(x).pc = "start"
    /\ bp' = [bp EXCEPT !.f[x].pc = "launch"]
    /\ UNCHANGED poolRest

\* self._browser = await ...launch(); self._available_contexts = asyncio.Queue();
\* the first new_context is awaited
EnsureLaunched(x) ==
    /\ Fetch(x).pc = "launch"
    /\ bp' = [bp EXCEPT !.browser = bp.launched + 1,
                        !.launched = @ + 1,
                        !.qid = @ + 1,
                        !.queue = {},
                        !.replaced = @ \/ \E y \in Fibers :
                                           /\ Fetch(y).context # 0
                                           /\ ~Fetch(y).fabricated
                                           /\ Fetch(y).pc # "done",
                        !.f[x].pc = "fill"]
    /\ UNCHANGED poolRest

\* context = await self._browser.new_context(...) has returned:
\* self._contexts.append(context); await self._available_contexts.put(context);
\* after max_contexts rounds _ensure_browser returns and the get begins
EnsureFilled(x) ==
    /\ Fetch(x).pc = "fill"
    /\ LET context == bp.created + 1
           last == Fetch(x).i + 1 = PoolSize
       IN  bp' = [bp EXCEPT !.created = context,
                            !.pooled = @ + 1,
                            !.queue = @ \cup {context},
                            !.f[x] = IF last
                                     THEN [@ EXCEPT !.pc = "get", !.i = 0, !.qid = bp.qid]
                                     ELSE [@ EXCEPT !.i = @ + 1]]
    /\ UNCHANGED poolRest

\* asyncio.wait_for(self._available_contexts.get(), timeout=30) returns a context
GetTake(x) ==
    /\ Fetch(x).pc = "get"
    /\ Fetch(x).qid = bp.qid
    /\ \E context \in bp.queue :
         bp' = [bp EXCEPT !.queue = @ \ {context},
                          !.f[x] = [@ EXCEPT !.pc = "new_page", !.context = context,
                                             !.acquired = TRUE]]
    /\ UNCHANGED poolRest

\* except asyncio.TimeoutError: the queue the get waits on stayed empty for 30 s;
\* context = await self._browser.new_context(...)
GetTimeout(x) ==
    /\ Fetch(x).pc = "get"
    /\ Fetch(x).qid # bp.qid \/ bp.queue = {}
    /\ bp' = [bp EXCEPT !.created = @ + 1,
                        !.f[x] = [@ EXCEPT !.pc = "new_page", !.context = bp.created + 1,
                                           !.acquired = TRUE, !.fabricated = TRUE]]
    /\ UNCHANGED poolRest

\* page = await context.new_page(); when it raises, page stays None and the
\* finally clause goes to _return_context
NewPage(x, ok) ==
    /\ Fetch(x).pc = "new_page"
    /\ bp' = [bp EXCEPT !.f[x] = IF ok THEN [@ EXCEPT !.pc = "load", !.page = TRUE]
                                 ELSE [@ EXCEPT !.pc = "return", !.raised = "Exception"]]
    /\ UNCHANGED poolRest

\* page.goto, wait_for_load_state("networkidle"), page.content()
Load(x, ok) ==
    /\ Fetch(x).pc = "load"
    /\ bp' = [bp EXCEPT !.f[x] = IF ok THEN [@ EXCEPT !.pc = "close_page", !.html = TRUE]
                                 ELSE [@ EXCEPT !.pc = "close_page",
                                                !.raised = "Exception"]]
    /\ UNCHANGED poolRest

\* finally: if page: await page.close(); an exception raised here leaves the
\* finally clause before _return_context
ClosePage(x, ok) ==
    /\ Fetch(x).pc = "close_page"
    /\ bp' = [bp EXCEPT !.f[x] = IF ok THEN [@ EXCEPT !.pc = "return"]
                                 ELSE [@ EXCEPT !.pc = "done", !.raised = "close_error"]]
    /\ UNCHANGED poolRest

\* _return_context: self._available_contexts.put_nowait(context) adds the context
\* to the unbounded queue (QueueFull cannot be raised) and returns None; awaiting
\* None raises TypeError, which leaves fetch_page
ReturnContext(x) ==
    /\ Fetch(x).pc = "return"
    /\ bp' = [bp EXCEPT !.queue = @ \cup {Fetch(x).context},
                        !.f[x] = [@ EXCEPT !.pc = "done", !.returned = TRUE,
                                           !.raised = "TypeError"]]
    /\ UNCHANGED poolRest

\* a provider as ScraperService constructs it, no browser started yet
InitPool ==
    /\ cfg = [redis |-> FALSE, decode_responses |-> FALSE, secondary |-> TRUE]
    /\ RouterInit
    /\ ConvInit
    /\ bh = NoBh
    /\ sc = NewScraper("playwright", "memory", TRUE)
    /\ emb = NewEmbeddings(EMBEDDING_DIMENSION, QUERY_DIMENSION)
    /\ th = NoThreads
    /\ bp = NewProvider

NextPool ==
    \E x \in Fibers :
        \/ FetchCall(x)
        \/ EnsureStarted(x)
        \/ EnsureLaunched(x)
        \/ EnsureFilled(x)
        \/ GetTake(x)
        \/ GetTimeout(x)
        \/ \E ok \in BOOLEAN : NewPage(x, ok)
        \/ \E ok \in BOOLEAN : Load(x, ok)
        \/ \E ok \in BOOLEAN : ClosePage(x, ok)
        \/ ReturnContext(x)

SpecPool == InitPool /\ [][NextPool]_vars

\* C33: a fetch that obtained a context and has ended has handed it to
\* _return_context, on every exit path
C33_ContextGivenBack ==
    \A x \in Fibers :
        (Fetch(x).pc = "done" /\ Fetch(x).acquired) => Fetch(x).returned

\* C34: the pool never holds more than max_contexts contexts
C34_PoolBounded == Cardinality(bp.queue) <= PoolSize

\* C36: a fetch whose context, page, navigation and content all succeeded and
\* whose page closed returns the html: it does not end with an exception
C36_SuccessfulFetchReturns ==
    \A x \in Fibers :
        (Fetch(x).pc = "done" /\ Fetch(x).html /\ Fetch(x).raised # "close_error")
        => Fetch(x).raised = "none"

\* C37: at most one browser is launched, _ensure_browser creates at most
\* max_contexts contexts, and the queue is not replaced while a context taken
\* from it is in use
C37_InitialisedOnce ==
    /\ bp.launched <= 1
    /\ bp.pooled <= PoolSize
    /\ ~bp.replaced

====
